---- MODULE Spec2Model ----
(***************************************************************************)
(* A model of the MyRDBMS engine: the file-based Storage, the              *)
(* IndexManager, the constraint part of SQLParser, the QueryExecutor       *)
(* pipelines, the Database facade, the batch endpoint of the server and    *)
(* the in-memory Table.  The persisted files of one database and the rows  *)
(* and indexes of one Table are the state; one action stands for one       *)
(* executed statement or one call.                                         *)
(***************************************************************************)
EXTENDS Integers, Sequences, FiniteSets, TLC

VARIABLES
    tableDir,      \* table name -> does <db>/<table>/ exist
    schemaFile,    \* table name -> content of <table>/schema.json
    dataFile,      \* table name -> content of <table>/data.pkl
    indexFile,     \* table name -> column -> content of <table>/index_<column>.pkl
    meta,          \* content of <db>/meta.json : tables is the list meta['tables']
    stmt,          \* the statement executed last
    result,        \* the record QueryExecutor.execute returned for it
    wr,            \* the file write in flight (byte-level view of one open()/dump())
    pc,            \* client -> position inside _execute_insert / insert_row
    loaded,        \* client -> the list insert_row has unpickled
    prow,          \* client -> the row the client is inserting
    table_rows,    \* Table.rows of the in-memory table t
    table_indexes  \* Table.indexes of the in-memory table t: column -> value -> positions

vars == <<tableDir, schemaFile, dataFile, indexFile, meta, stmt, result, wr, pc, loaded, prow,
          table_rows, table_indexes>>

(***************************************************************************)
(* Bounds                                                                  *)
(***************************************************************************)
MaxRows == 2

Tables == {"t", "l", "r", "T"}
MainTables == {"t"}
Columns == {"id", "name", "a", "b"}
Clients == {"c1", "c2"}

(***************************************************************************)
(* Python values.  s is the text Python's str() prints for the value.      *)
(***************************************************************************)
Null == [tag |-> "null", s |-> "None"]
IntV(s) == [tag |-> "int", s |-> s]
StrV(s) == [tag |-> "str", s |-> s]

\* str(value)
Str(v) == StrV(v.s)

\* value is None
IsNone(v) == v.tag = "null"

\* a == b on None, int and str values
PyEq(v, w) == v = w

RECURSIVE SeqToSet(_)
SeqToSet(sq) == IF sq = <<>> THEN {} ELSE {Head(sq)} \cup SeqToSet(Tail(sq))

\* dict.get(key, default)
Get(row, key, default) == IF key \in DOMAIN row THEN row[key] ELSE default

(***************************************************************************)
(* Files                                                                   *)
(***************************************************************************)
\* st is "ok" for a file whose content parses, "empty" right after
\* open(path, 'w') truncated it, "partial" while dump() is writing it.
NoFile == [exists |-> FALSE, st |-> "ok", kind |-> "none", columns |-> <<>>, rows |-> <<>>, map |-> <<>>, tables |-> <<>>]
TruncatedFile == [NoFile EXCEPT !.exists = TRUE, !.st = "empty"]
PartialFile == [NoFile EXCEPT !.exists = TRUE, !.st = "partial"]
\* schema.json holding a dict with 'columns'
SchemaDict(cols) == [NoFile EXCEPT !.exists = TRUE, !.kind = "dict", !.columns = cols]
\* a json/pickle file holding a list of rows
RowList(rows) == [NoFile EXCEPT !.exists = TRUE, !.kind = "list", !.rows = rows]
\* index_<column>.pkl holding the dict value -> positions
IndexDict(m) == [NoFile EXCEPT !.exists = TRUE, !.kind = "index", !.map = m]
\* meta.json holding {'tables': [...]}
MetaDict(tables) == [NoFile EXCEPT !.exists = TRUE, !.kind = "meta", !.tables = tables]

Disk == [dir |-> tableDir, schema |-> schemaFile, data |-> dataFile, index |-> indexFile, meta |-> meta]

SetDisk(d) ==
    /\ tableDir' = d.dir
    /\ schemaFile' = d.schema
    /\ dataFile' = d.data
    /\ indexFile' = d.index
    /\ meta' = d.meta


(***************************************************************************)
(* Storage (engine/storage.py).  Each operator maps the disk before the    *)
(* call to the disk after it.                                              *)
(***************************************************************************)
\* Storage._serialize_schema: a dict with 'columns' gets every column
\* rewritten to the keys name, data_type, constraints, max_length; any
\* other object (a list has no member equal to 'columns') is returned as is.
serialize_schema(schema) ==
    IF schema.kind = "dict"
    THEN SchemaDict([i \in DOMAIN schema.columns |->
            [name |-> schema.columns[i].name,
             data_type |-> schema.columns[i].type,
             constraints |-> schema.columns[i].constraints,
             max_length |-> schema.columns[i].max_length]])
    ELSE schema

\* Storage._load_metadata: the 'tables' list, [] when meta.json is missing
load_metadata(d) == IF d.meta.exists THEN d.meta.tables ELSE <<>>

\* json.load of meta.json raises
meta_unreadable(d) == d.meta.exists /\ d.meta.st /= "ok"

\* Storage.save_table_schema: the directory, schema.json, and the registry
\* entry when the name is new; nothing after schema.json when reading
\* meta.json raises
save_table_schema(d, tbl, schema) ==
    LET d1 == [d EXCEPT !.dir[tbl] = TRUE, !.schema[tbl] = serialize_schema(schema)]
    IN IF meta_unreadable(d) \/ tbl \in SeqToSet(load_metadata(d)) THEN d1
       ELSE [d1 EXCEPT !.meta = MetaDict(Append(load_metadata(d), tbl))]

\* Storage.load_table_schema
load_table_schema(d, tbl) == d.schema[tbl]

\* Storage.get_all_rows: a missing file and a file pickle cannot load both
\* read as the empty list.
get_all_rows(d, tbl) ==
    IF d.data[tbl].exists /\ d.data[tbl].st = "ok" THEN d.data[tbl].rows ELSE <<>>

\* Storage.insert_row: load (an unreadable file loads as []), append, save.
insert_row(d, tbl, row) ==
    [d EXCEPT !.data[tbl] = RowList(Append(get_all_rows(d, tbl), row))]

\* Storage.table_exists
table_exists(d, tbl) == d.dir[tbl]

\* a delete_table that removes the directory and leaves meta.json alone
delete_table_KeepRegistry(d, tbl) ==
    IF ~d.dir[tbl] THEN d
    ELSE [d EXCEPT !.dir[tbl] = FALSE,
                   !.schema[tbl] = NoFile,
                   !.data[tbl] = NoFile,
                   !.index[tbl] = [c \in Columns |-> NoFile]]

\* a delete_table that removes schema.json and the registry entry and leaves
\* the directory with its row store and index files
delete_table_KeepRows(d, tbl) ==
    LET d1 == [d EXCEPT !.schema[tbl] = NoFile]
    IN IF ~d.dir[tbl] THEN d
       ELSE IF meta_unreadable(d) \/ tbl \notin SeqToSet(load_metadata(d)) THEN d1
       ELSE [d1 EXCEPT !.meta = MetaDict(SelectSeq(load_metadata(d), LAMBDA x : x /= tbl))]

\* Storage.delete_table: rmtree of the table directory, then the registry.
delete_table(d, tbl) ==
    LET d1 == [d EXCEPT !.dir[tbl] = FALSE,
                        !.schema[tbl] = NoFile,
                        !.data[tbl] = NoFile,
                        !.index[tbl] = [c \in Columns |-> NoFile]]
    IN IF ~d.dir[tbl] THEN d
       ELSE IF meta_unreadable(d) \/ tbl \notin SeqToSet(load_metadata(d)) THEN d1
       ELSE [d1 EXCEPT !.meta = MetaDict(SelectSeq(load_metadata(d), LAMBDA x : x /= tbl))]

(***************************************************************************)
(* IndexManager (engine/index_manager.py)                                  *)
(***************************************************************************)
\* the positions (0-based) of the rows whose column holds key
Positions(rows, column, key) ==
    LET hits == {i \in 1..Len(rows) : column \in DOMAIN rows[i] /\ rows[i][column] = key}
        RECURSIVE Up(_)
        Up(i) == IF i > Len(rows) THEN <<>>
                 ELSE IF i \in hits THEN <<i - 1>> \o Up(i + 1) ELSE Up(i + 1)
    IN Up(1)

\* an index dict that also files the rows without a value, under None
BuildIndex_WithNone(rows, column) ==
    LET keys == {Get(rows[i], column, Null) : i \in 1..Len(rows)}
    IN [k \in keys |->
           IF IsNone(k)
           THEN Positions([i \in 1..Len(rows) |-> [x \in {column} |-> Get(rows[i], column, Null)]],
                          column, k)
           ELSE Positions(rows, column, k)]

\* the dict create_index builds: every non-None value of the column -> positions
BuildIndex(rows, column) ==
    LET keys == {rows[i][column] : i \in {j \in 1..Len(rows) :
                     column \in DOMAIN rows[j] /\ ~IsNone(rows[j][column])}}
    IN [k \in keys |-> Positions(rows, column, k)]

\* IndexManager.create_index
create_index(d, tbl, column) ==
    [d EXCEPT !.dir[tbl] = TRUE,
              !.index[tbl][column] = IndexDict(BuildIndex(get_all_rows(d, tbl), column))]

\* IndexManager.get_by_index; err is TRUE when it raises (pickle.load of an
\* unreadable index file, IndexError of rows[i])
get_by_index(d, tbl, column, value) ==
    LET f == d.index[tbl][column]
        rows == get_all_rows(d, tbl)
    IN IF ~f.exists THEN [err |-> FALSE, rows |-> <<>>]
       ELSE IF f.st /= "ok" THEN [err |-> TRUE, rows |-> <<>>]
       ELSE IF value \notin DOMAIN f.map THEN [err |-> FALSE, rows |-> <<>>]
       ELSE IF \E k \in DOMAIN f.map[value] : f.map[value][k] >= Len(rows)
            THEN [err |-> TRUE, rows |-> <<>>]
            ELSE [err |-> FALSE,
                  rows |-> [k \in DOMAIN f.map[value] |-> rows[f.map[value][k] + 1]]]

(***************************************************************************)
(* SQLParser (engine/parser.py)                                            *)
(***************************************************************************)
\* A column of CREATE TABLE as written: its name, the base type, the
\* length in parentheses ("None" when there is none) and the words after
\* the type.  _parse_create_table looks for the constraint keywords in the
\* upper-cased, space-joined words.
parse_column(text) ==
    LET words == SeqToSet(text.words)
    IN [name |-> text.name,
        data_type |-> text.type,
        constraints |->
            (IF "PRIMARY" \in words /\ "KEY" \in words THEN {"PRIMARY_KEY"} ELSE {})
            \cup (IF "UNIQUE" \in words THEN {"UNIQUE"} ELSE {})
            \cup (IF "NOT" \in words /\ "NULL" \in words THEN {"NOT_NULL"} ELSE {}),
        max_length |-> text.len]

\* SQLParser._parse_create_table: the CreateTableQuery of the column texts
parse_create_table(tbl, texts) ==
    [type |-> "CREATE_TABLE", table |-> tbl,
     columns |-> [i \in DOMAIN texts |-> parse_column(texts[i])]]

(***************************************************************************)
(* QueryExecutor (engine/query_executor.py).  Each pipeline maps the disk  *)
(* and the parsed query to the disk afterwards and the result record.      *)
(***************************************************************************)
\* the result records; error = "" stands for a dict without the 'error' key,
\* and execute() sets success from it.  raised is TRUE when the call did not
\* return a record but raised an exception, whose text is error.
Ok(count, rows) ==
    [success |-> TRUE, error |-> "", count |-> count, rows |-> rows, raised |-> FALSE]
Err(e) ==
    [success |-> FALSE, error |-> e, count |-> 0, rows |-> <<>>, raised |-> FALSE]
Raise(e) ==
    [success |-> FALSE, error |-> e, count |-> 0, rows |-> <<>>, raised |-> TRUE]

\* the list of constraint strings _execute_create_table stores for a column
StorageConstraints(col) ==
    (IF "PRIMARY_KEY" \in col.constraints THEN {"PRIMARY KEY"} ELSE {})
    \cup (IF "UNIQUE" \in col.constraints THEN {"UNIQUE"} ELSE {})
    \cup (IF "NOT_NULL" \in col.constraints THEN {"NOT NULL"} ELSE {})

\* the first column that carries PRIMARY_KEY, 0 when there is none
FirstPrimaryKey(cols) ==
    LET pk == {i \in DOMAIN cols : "PRIMARY_KEY" \in cols[i].constraints}
    IN IF pk = {} THEN 0 ELSE CHOOSE i \in pk : \A j \in pk : i <= j

\* QueryExecutor._execute_create_table
execute_create_table(d, q) ==
    LET columns == [i \in DOMAIN q.columns |->
                       [name |-> q.columns[i].name,
                        type |-> q.columns[i].data_type,
                        constraints |-> StorageConstraints(q.columns[i]),
                        max_length |-> q.columns[i].max_length]]
        d1 == save_table_schema(d, q.table, SchemaDict(columns))
        pk == FirstPrimaryKey(q.columns)
        d2 == IF pk = 0 THEN d1 ELSE create_index(d1, q.table, q.columns[pk].name)
    IN IF meta_unreadable(d) THEN [disk |-> d1, res |-> Err("Error creating table")]
       ELSE [disk |-> d2, res |-> Ok(0, <<>>)]

\* col_def.get('type', 'TEXT').upper()
ColType(col_def) == IF "type" \in DOMAIN col_def THEN col_def.type ELSE "TEXT"

\* the strings int() accepts among the literals of the model
Numeric == {"1", "2"}

\* the value _execute_insert stores for a literal in a column of col_type
Coerce(value, col_type) ==
    IF IsNone(value) THEN Null
    ELSE IF col_type = "INT"
         THEN (IF value.tag = "int" \/ value.s \in Numeric THEN IntV(value.s) ELSE value)
         ELSE Str(value)

\* the row dict _execute_insert builds from the values
InsertRowOf(column_defs, values) ==
    [c \in {column_defs[i].name : i \in DOMAIN column_defs} |->
        LET i == CHOOSE j \in DOMAIN column_defs :
                     /\ column_defs[j].name = c
                     /\ \A k \in DOMAIN column_defs : column_defs[k].name = c => k <= j
        IN Coerce(values[i], ColType(column_defs[i]))]

\* a NOT NULL check that looks for the name of the enum member
NotNullViolated_EnumName(col_def, row) ==
    "NOT_NULL" \in col_def.constraints /\ IsNone(row[col_def.name])

\* the NOT NULL check of _execute_insert (line 154)
NotNullViolated(col_def, row) ==
    "NOT NULL" \in col_def.constraints /\ IsNone(row[col_def.name])

\* a UNIQUE check whose scan starts at the second stored row
UniqueViolated_SkipFirst(col_def, row, all_rows) ==
    /\ "UNIQUE" \in col_def.constraints
    /\ \E k \in DOMAIN all_rows :
           k > 1 /\ PyEq(Get(all_rows[k], col_def.name, Null), row[col_def.name])

\* the UNIQUE check of _execute_insert (lines 158-162): a scan of all rows
UniqueViolated(col_def, row, all_rows) ==
    /\ "UNIQUE" \in col_def.constraints
    /\ \E k \in DOMAIN all_rows :
           PyEq(Get(all_rows[k], col_def.name, Null), row[col_def.name])

\* the constraint loop of _execute_insert, column by column: "" when the row
\* passes, else the error of the first check that fails
RECURSIVE ConstraintError(_, _, _, _)
ConstraintError(column_defs, row, all_rows, i) ==
    IF i > Len(column_defs) THEN ""
    ELSE IF NotNullViolated(column_defs[i], row) THEN "cannot be NULL"
    ELSE IF UniqueViolated(column_defs[i], row, all_rows)
         THEN "Duplicate value for unique column"
         ELSE ConstraintError(column_defs, row, all_rows, i + 1)

\* an _execute_insert without the try/except around its body: json.load of
\* an unreadable schema.json raises out of it
execute_insert_NoCatch(d, q) ==
    LET schema == load_table_schema(d, q.table)
    IN IF schema.exists /\ schema.st /= "ok"
       THEN [disk |-> d, res |-> Raise("JSONDecodeError")]
       ELSE IF ~schema.exists \/ schema.kind /= "dict"
       THEN [disk |-> d, res |-> Err("not found or has no schema")]
       ELSE IF Len(q.values) /= Len(schema.columns)
       THEN [disk |-> d, res |-> Err("Expected values")]
       ELSE LET row == InsertRowOf(schema.columns, q.values)
                e == ConstraintError(schema.columns, row, get_all_rows(d, q.table), 1)
            IN IF e /= ""
               THEN [disk |-> d, res |-> Err(e)]
               ELSE [disk |-> insert_row(d, q.table, row), res |-> Ok(1, <<row>>)]

\* an _execute_insert that appends the row before it checks the constraints
execute_insert_CheckAfter(d, q) ==
    LET schema == load_table_schema(d, q.table)
    IN IF schema.exists /\ schema.st /= "ok"
       THEN [disk |-> d, res |-> Err("Error inserting row")]
       ELSE IF ~schema.exists \/ schema.kind /= "dict"
       THEN [disk |-> d, res |-> Err("not found or has no schema")]
       ELSE IF Len(q.values) /= Len(schema.columns)
       THEN [disk |-> d, res |-> Err("Expected values")]
       ELSE LET row == InsertRowOf(schema.columns, q.values)
                e == ConstraintError(schema.columns, row, get_all_rows(d, q.table), 1)
            IN IF e /= ""
               THEN [disk |-> insert_row(d, q.table, row), res |-> Err(e)]
               ELSE [disk |-> insert_row(d, q.table, row), res |-> Ok(1, <<row>>)]

\* QueryExecutor._execute_insert
execute_insert(d, q) ==
    LET schema == load_table_schema(d, q.table)
    IN IF schema.exists /\ schema.st /= "ok"
       THEN [disk |-> d, res |-> Err("Error inserting row")]
       ELSE IF ~schema.exists \/ schema.kind /= "dict"
       THEN [disk |-> d, res |-> Err("not found or has no schema")]
       ELSE IF Len(q.values) /= Len(schema.columns)
       THEN [disk |-> d, res |-> Err("Expected values")]
       ELSE LET row == InsertRowOf(schema.columns, q.values)
                e == ConstraintError(schema.columns, row, get_all_rows(d, q.table), 1)
            IN IF e /= ""
               THEN [disk |-> d, res |-> Err(e)]
               ELSE [disk |-> insert_row(d, q.table, row), res |-> Ok(1, <<row>>)]

\* a query without a WHERE clause (where_clause is None)
NoWhere == [col |-> "", op |-> "", val |-> ""]

\* a query without a JOIN clause (join_clause is None)
NoJoin == [table |-> "", on |-> "none", left |-> "", right |-> ""]

\* where_clause.split('=', 1)[0].strip() for the clause "col op literal":
\* the column text keeps the first character of a two-character operator
SplitCol(where) ==
    IF where.op = "=" THEN where.col
    ELSE IF where.op = "!=" THEN where.col \o " !"
    ELSE IF where.op = ">=" THEN where.col \o " >"
    ELSE where.col \o " <"

\* '=' in where_clause
HasEq(where) == where.op \in {"=", "!=", ">=", "<="}

\* the WHERE test of _execute_update (lines 592-603): should_update
UpdateMatches(row, where) ==
    IF where = NoWhere THEN TRUE
    ELSE IF HasEq(where)
         THEN Get(row, SplitCol(where), StrV("")).s = where.val
         ELSE TRUE

\* the WHERE test of _execute_delete (lines 762-770): the row is dropped
DeleteMatches(row, where) ==
    IF where = NoWhere THEN FALSE
    ELSE IF HasEq(where)
         THEN Get(row, SplitCol(where), StrV("")).s = where.val
         ELSE FALSE

\* the loop "for col, new_value in set_clause.items(): row[col] = new_value"
ApplySet(row, set_clause) ==
    [c \in DOMAIN row \cup DOMAIN set_clause |->
        IF c \in DOMAIN set_clause THEN set_clause[c] ELSE row[c]]

\* QueryExecutor._execute_update: the rows are changed in memory, and the
\* only public Storage method with 'save' in its name, save_table_schema,
\* is called with the row list in the place of the schema.  (Were that call
\* to raise on an unreadable meta.json, the fallback writes a file no
\* operation reads, under the default data directory.)
execute_update(d, q) ==
    LET rows == get_all_rows(d, q.table)
        hits == {i \in 1..Len(rows) : UpdateMatches(rows[i], q.where)}
        new_rows == [i \in 1..Len(rows) |->
                        IF i \in hits THEN ApplySet(rows[i], q.set) ELSE rows[i]]
        updated_count == Cardinality(hits)
    IN IF rows = <<>>
       THEN [disk |-> d, res |-> Ok(0, <<>>)]
       ELSE IF updated_count > 0
       THEN [disk |-> save_table_schema(d, q.table, RowList(new_rows)),
             res |-> Ok(updated_count, <<>>)]
       ELSE [disk |-> d, res |-> Ok(0, <<>>)]

\* QueryExecutor._execute_delete: remaining_rows is computed and dropped
execute_delete(d, q) ==
    LET rows == get_all_rows(d, q.table)
        hits == {i \in 1..Len(rows) : DeleteMatches(rows[i], q.where)}
    IN [disk |-> d, res |-> Ok(Cardinality(hits), <<>>)]

\* QueryExecutor._execute_drop_table
execute_drop_table(d, q) ==
    IF d.dir[q.table] /\ meta_unreadable(d)
    THEN [disk |-> delete_table(d, q.table), res |-> Err("Error dropping table")]
    ELSE IF d.dir[q.table]
    THEN [disk |-> delete_table(d, q.table), res |-> Ok(0, <<>>)]
    ELSE [disk |-> d, res |-> Err("not found")]

\* str.lower() on the column names of the model
Lower(name) == IF name = "A" THEN "a" ELSE IF name = "B" THEN "b" ELSE name

\* the column-exists check of _execute_join (lines 276-298) against the first
\* row: the name itself, else the key equal to it ignoring case, else ""
ResolveCol(col, sample) ==
    IF col \in DOMAIN sample THEN col
    ELSE IF \E key \in DOMAIN sample : Lower(key) = Lower(col)
         THEN CHOOSE key \in DOMAIN sample : Lower(key) = Lower(col)
         ELSE ""

\* QueryExecutor._merge_rows for SELECT *: the left columns, then the right
\* columns, a right column whose name is taken getting the table prefix
merge_rows(left_row, right_row, right_table) ==
    LET NewKey(key) == IF key \in DOMAIN left_row THEN right_table \o "_" \o key ELSE key
        new_keys == {NewKey(key) : key \in DOMAIN right_row}
    IN [c \in DOMAIN left_row \cup new_keys |->
           IF c \in new_keys
           THEN right_row[CHOOSE key \in DOMAIN right_row : NewKey(key) = c]
           ELSE left_row[c]]

\* str(row.get(col, '')): the key the hash join compares
JoinKey(row, col) == Get(row, col, StrV("")).s

\* the merged rows of one left row: right_lookup[left_key], in right order
JoinOne(left_row, left_col, right_rows, right_col, right_table) ==
    LET matched == SelectSeq(right_rows,
                       LAMBDA y : JoinKey(y, right_col) = JoinKey(left_row, left_col))
    IN [k \in DOMAIN matched |-> merge_rows(left_row, matched[k], right_table)]

\* the merged rows of one left row in the cartesian product
CrossOne(left_row, right_rows, right_table) ==
    [k \in DOMAIN right_rows |-> merge_rows(left_row, right_rows[k], right_table)]

\* joined_rows: the merged rows of the left rows from position i on
RECURSIVE JoinedRows(_, _, _, _, _, _, _)
JoinedRows(left_rows, left_col, right_rows, right_col, right_table, cross, i) ==
    IF i > Len(left_rows) THEN <<>>
    ELSE (IF cross THEN CrossOne(left_rows[i], right_rows, right_table)
          ELSE JoinOne(left_rows[i], left_col, right_rows, right_col, right_table))
         \o JoinedRows(left_rows, left_col, right_rows, right_col, right_table, cross, i + 1)

\* QueryExecutor._execute_join.  join.on is "none" for a missing ON clause,
\* "noeq" for one without '=', "eq" for "x = y", whose sides (the text after
\* the last '.') are join.left and join.right.
execute_join(d, left_rows, join) ==
    LET right_rows == get_all_rows(d, join.table)
        left0 == IF join.on = "eq" THEN join.left ELSE ""
        right0 == IF join.on = "eq" THEN join.right ELSE ""
        left_col == IF left0 /= "" /\ left_rows /= <<>>
                    THEN ResolveCol(left0, left_rows[1]) ELSE left0
        right_col == IF right0 /= "" /\ right_rows /= <<>>
                     THEN ResolveCol(right0, right_rows[1]) ELSE right0
    IN IF right_rows = <<>> THEN [error |-> "", rows |-> <<>>]
       ELSE IF left0 /= "" /\ left_col = "" THEN [error |-> "not found in left table", rows |-> <<>>]
       ELSE IF right0 /= "" /\ right_col = "" THEN [error |-> "not found in right table", rows |-> <<>>]
       ELSE [error |-> "",
             rows |-> JoinedRows(left_rows, left_col, right_rows, right_col, join.table,
                                 left_col = "" \/ right_col = "", 1)]

\* float(s) succeeds on these strings of the model
IsNumeric(s) == s \in {"0", "1", "2", "3"}

\* the number a numeric string stands for
Num(s) == IF s = "1" THEN 1 ELSE IF s = "2" THEN 2 ELSE IF s = "3" THEN 3 ELSE 0

\* str(n) for the small numbers of the model
NumStr(n) == IF n = 0 THEN "0" ELSE <<"1", "2", "3", "4", "5", "6">>[n]

\* the place of a string of the model in Python's order of strings
Rank(s) ==
    IF s = "" THEN 0 ELSE IF s = "0" THEN 1 ELSE IF s = "1" THEN 2
    ELSE IF s = "2" THEN 3 ELSE IF s = "3" THEN 4
    ELSE IF s = "Jane" THEN 5 ELSE IF s = "John" THEN 6 ELSE 7

\* "x op y" on two numbers (or two ranks)
Cmp(x, op, y) ==
    IF op = "=" THEN x = y
    ELSE IF op = "!=" THEN x /= y
    ELSE IF op = ">" THEN x > y
    ELSE IF op = "<" THEN x < y
    ELSE IF op = ">=" THEN x >= y
    ELSE x <= y

\* the row test of _apply_where (lines 421-474).  float() of a non-numeric
\* row value or literal raises ValueError, and the except branch compares
\* the strings for '=' and '!=' only; a None row value with a numeric
\* literal takes the string comparison of the else branch, with ''.
WhereKeeps(row, where) ==
    /\ where.col \in DOMAIN row
    /\ LET v == row[where.col]
           str_row == IF IsNone(v) THEN "" ELSE v.s
       IN IF (~IsNone(v) /\ ~IsNumeric(v.s)) \/ ~IsNumeric(where.val)
          THEN /\ where.op \in {"=", "!="}
               /\ (where.op = "=") = (str_row = where.val)
          ELSE IF IsNone(v)
          THEN Cmp(Rank(str_row), where.op, Rank(where.val))
          ELSE Cmp(Num(v.s), where.op, Num(where.val))

\* QueryExecutor._apply_where
apply_where(rows, where) ==
    IF where = NoWhere THEN rows
    ELSE SelectSeq(rows, LAMBDA row : WhereKeeps(row, where))

\* a column of the SELECT list: a plain name (fn = ""), '*', or FN(arg)
Col(fn, arg) == [fn |-> fn, arg |-> arg]
Star == <<Col("", "*")>>

\* the text of a column of the SELECT list
ColText(c) == IF c.fn = "" THEN c.arg ELSE c.fn \o "(" \o c.arg \o ")"

\* the keys of the dict 'groups', in the order of their first row
RECURSIVE GroupKeys(_, _, _)
GroupKeys(rows, group_by, i) ==
    IF i > Len(rows) THEN <<>>
    ELSE LET key == Get(rows[i], group_by, Null)
         IN IF \E j \in 1..(i - 1) : Get(rows[j], group_by, Null) = key
            THEN GroupKeys(rows, group_by, i + 1)
            ELSE <<key>> \o GroupKeys(rows, group_by, i + 1)

\* the sum of the int values of a column over rows i.. (isinstance int)
RECURSIVE SumInts(_, _, _)
SumInts(rows, col, i) ==
    IF i > Len(rows) THEN 0
    ELSE (IF Get(rows[i], col, Null).tag = "int" THEN Num(rows[i][col].s) ELSE 0)
         + SumInts(rows, col, i + 1)

\* total / count of _apply_group_by (line 528): a float, 0 without values
AvgOf(total, count) ==
    IF count = 0 THEN IntV("0")
    ELSE [tag |-> "float", s |-> NumStr(total) \o "/" \o NumStr(count)]

\* the key _apply_group_by puts an aggregate under
AggKey(c) ==
    IF c.fn = "COUNT" /\ c.arg = "*" THEN "count"
    ELSE IF c.fn = "COUNT" THEN "count_" \o c.arg
    ELSE IF c.fn = "SUM" THEN "sum_" \o c.arg
    ELSE "avg_" \o c.arg

\* the value of the aggregate c over the rows of one group
AggValue(c, group_rows) ==
    LET ints == SelectSeq(group_rows, LAMBDA r : Get(r, c.arg, Null).tag = "int")
    IN IF c.fn = "COUNT" /\ c.arg = "*" THEN IntV(NumStr(Len(group_rows)))
       ELSE IF c.fn = "COUNT"
       THEN IntV(NumStr(Len(SelectSeq(group_rows, LAMBDA r : ~IsNone(Get(r, c.arg, Null))))))
       ELSE IF c.fn = "SUM" THEN IntV(NumStr(SumInts(group_rows, c.arg, 1)))
       ELSE AvgOf(SumInts(group_rows, c.arg, 1), Len(ints))

\* QueryExecutor._apply_group_by: one row per group, holding the group key
\* and the aggregates of the SELECT list under the keys count, count_<col>,
\* sum_<col>, avg_<col>
apply_group_by(rows, group_by, columns) ==
    LET keys == GroupKeys(rows, group_by, 1)
        aggs == {i \in DOMAIN columns : columns[i].fn \in {"COUNT", "SUM", "AVG"}}
    IN [k \in DOMAIN keys |->
           LET group_rows == SelectSeq(rows, LAMBDA r : Get(r, group_by, Null) = keys[k])
           IN [name \in {group_by} \cup {AggKey(columns[i]) : i \in aggs} |->
                  IF \E i \in aggs : AggKey(columns[i]) = name
                  THEN AggValue(columns[CHOOSE i \in aggs :
                                    /\ AggKey(columns[i]) = name
                                    /\ \A j \in aggs : AggKey(columns[j]) = name => j <= i],
                                group_rows)
                  ELSE keys[k]]]

\* "Select specific columns" of _execute_select (lines 203-215): a listed
\* column that is a key of the row is copied; one that is not and starts
\* with COUNT gets len(rows); any other is left out
project(rows, columns) ==
    [k \in DOMAIN rows |->
        LET kept == {i \in DOMAIN columns :
                        \/ ColText(columns[i]) \in DOMAIN rows[k]
                        \/ columns[i].fn = "COUNT"}
        IN [name \in {ColText(columns[i]) : i \in kept} |->
               IF name \in DOMAIN rows[k] THEN rows[k][name]
               ELSE IntV(NumStr(Len(rows)))]]

\* an ORDER BY clause: the column and the word that follows it ("", "ASC"
\* or "DESC"); NoOrder stands for None
NoOrder == [col |-> "", dir |-> ""]

\* query.limit = None
NoLimit == -1

\* the key of sorted(): x.get(order_by, '')
SortKey(row, col) == Get(row, col, StrV(""))

\* the place of a key among keys of its own type
KeyRank(v) == IF v.tag = "int" THEN Num(v.s) ELSE Rank(v.s)

\* sorted() compares the keys without TypeError: at most one row, or keys
\* that are all str or all int (None is ordered against nothing)
Sortable(rows, col) ==
    \/ Len(rows) <= 1
    \/ \A i \in DOMAIN rows : SortKey(rows[i], col).tag = "str"
    \/ \A i \in DOMAIN rows : SortKey(rows[i], col).tag = "int"

\* sorted(rows, key, reverse): stable, and reverse keeps the original order
\* of rows with equal keys
Sorted(rows, col, reverse) ==
    LET k(i) == KeyRank(SortKey(rows[i], col))
        Before(j, i) == \/ (IF reverse THEN k(j) > k(i) ELSE k(j) < k(i))
                        \/ (k(j) = k(i) /\ j < i)
        Pos(i) == Cardinality({j \in DOMAIN rows : Before(j, i)}) + 1
    IN [p \in DOMAIN rows |-> rows[CHOOSE i \in DOMAIN rows : Pos(i) = p]]

\* QueryExecutor._apply_order_by: DESC sorts in reverse, and the bare except
\* returns the rows unsorted
apply_order_by(rows, order_by) ==
    IF rows = <<>> THEN rows
    ELSE IF Sortable(rows, order_by.col)
    THEN Sorted(rows, order_by.col, order_by.dir = "DESC")
    ELSE rows

\* rows[:limit]
Take(rows, n) == SubSeq(rows, 1, IF n < Len(rows) THEN n ELSE Len(rows))

\* "Apply GROUP BY" of _execute_select (lines 199-200)
group_rows(rows, q) ==
    IF q.group_by /= "" THEN apply_group_by(rows, q.group_by, q.cols) ELSE rows

\* "Select specific columns" of _execute_select (line 203)
select_columns(rows, q) == IF q.cols /= Star THEN project(rows, q.cols) ELSE rows

\* "Apply ORDER BY" of _execute_select (lines 217-219): "if query.order_by"
\* skips None
order_rows(rows, q) ==
    IF q.order_by /= NoOrder THEN apply_order_by(rows, q.order_by) ELSE rows

\* "Apply LIMIT" of _execute_select (lines 221-223): "if query.limit" skips
\* None and 0
limit_rows(rows, q) ==
    IF q.limit /= NoLimit /\ q.limit /= 0 THEN Take(rows, q.limit) ELSE rows

\* the record _execute_select returns for its rows (lines 228-235)
select_result(rows) == Ok(Len(rows), rows)

\* QueryExecutor._execute_select: JOIN, WHERE, GROUP BY, the column list,
\* ORDER BY and LIMIT
execute_select(d, q) ==
    IF ~table_exists(d, q.table) THEN [disk |-> d, res |-> Err("not found")]
    ELSE LET join_result == IF q.join.table /= ""
                            THEN execute_join(d, get_all_rows(d, q.table), q.join)
                            ELSE [error |-> "", rows |-> get_all_rows(d, q.table)]
         IN IF join_result.error /= ""
            THEN [disk |-> d, res |-> Err(join_result.error)]
            ELSE [disk |-> d,
                  res |-> select_result(
                      limit_rows(
                          order_rows(
                              select_columns(
                                  group_rows(apply_where(join_result.rows, q.where), q),
                                  q),
                              q),
                          q))]

(***************************************************************************)
(* Statements                                                              *)
(***************************************************************************)
EmptyDict == [c \in {} |-> Null]

Query(type, tbl) ==
    [type |-> type, table |-> tbl, columns |-> <<>>, values |-> <<>>,
     set |-> EmptyDict, where |-> NoWhere, join |-> NoJoin, column |-> "",
     cols |-> Star, group_by |-> "", order_by |-> NoOrder, limit |-> NoLimit,
     sql_order |-> NoOrder]

\* the ORDER BY and LIMIT clauses of SQLParser._parse_select (lines 344-357)
\* on a statement written with the clause 'order' (NoOrder: none) and the
\* limit 'limit' (NoLimit: none): the ORDER BY pattern ends in
\* (?:\s+(?:LIMIT|$)) and the text is stripped, so it matches only when a
\* LIMIT clause follows
parse_order_limit(q, order, limit) ==
    [q EXCEPT !.sql_order = order,
              !.order_by = IF order /= NoOrder /\ limit /= NoLimit THEN order ELSE NoOrder,
              !.limit = limit]

NoStmt == Query("NONE", "")

\* a dispatch whose SELECT also builds an index on the column id
dispatch_SelectBuildsIndex(d, q) ==
    IF q.type = "CREATE_TABLE" THEN execute_create_table(d, q)
    ELSE IF q.type = "INSERT" THEN execute_insert(d, q)
    ELSE IF q.type = "SELECT"
    THEN [disk |-> create_index(d, q.table, "id"), res |-> execute_select(d, q).res]
    ELSE IF q.type = "UPDATE" THEN execute_update(d, q)
    ELSE IF q.type = "DELETE" THEN execute_delete(d, q)
    ELSE IF q.type = "DROP_TABLE" THEN execute_drop_table(d, q)
    ELSE [disk |-> d, res |-> Err("Unsupported query type")]

\* QueryExecutor.execute, the dispatch on the type of the parsed query
\* (lines 31-44)
dispatch(d, q) ==
    IF q.type = "CREATE_TABLE" THEN execute_create_table(d, q)
    ELSE IF q.type = "INSERT" THEN execute_insert(d, q)
    ELSE IF q.type = "SELECT" THEN execute_select(d, q)
    ELSE IF q.type = "UPDATE" THEN execute_update(d, q)
    ELSE IF q.type = "DELETE" THEN execute_delete(d, q)
    ELSE IF q.type = "DROP_TABLE" THEN execute_drop_table(d, q)
    ELSE [disk |-> d, res |-> Err("Unsupported query type")]

\* QueryExecutor.execute: success is set from the presence of 'error'
\* (lines 50-53); an exception of the pipeline is raised again as
\* ExecutionError (lines 57-58)
execute(d, q) ==
    LET out == dispatch(d, q)
    IN IF out.res.raised
       THEN [disk |-> out.disk, res |-> Raise("Query execution failed")]
       ELSE [disk |-> out.disk, res |-> [out.res EXCEPT !.success = (out.res.error = "")]]

\* the disk and the result after the statement q has run to completion
Done(q) ==
    /\ SetDisk(execute(Disk, q).disk)
    /\ result' = execute(Disk, q).res
    /\ UNCHANGED <<wr, pc, loaded, prow, table_rows, table_indexes>>

(***************************************************************************)
(* Table (engine/table.py): the in-memory table, a record of its rows and  *)
(* its indexes.  An index maps a value to the list of the positions        *)
(* (0-based) of the rows that hold it.                                     *)
(***************************************************************************)
\* TableSchema('t', [id INT PRIMARY KEY, name VARCHAR(50)])
TableSchema ==
    <<[name |-> "id", data_type |-> "INT", constraints |-> {"PRIMARY_KEY"}, max_length |-> "None"],
      [name |-> "name", data_type |-> "VARCHAR", constraints |-> {}, max_length |-> "50"]>>

\* TableSchema.primary_key, set by __post_init__; "" stands for None
primary_key(schema) ==
    IF FirstPrimaryKey(schema) = 0 THEN "" ELSE schema[FirstPrimaryKey(schema)].name

\* the indexes that hold the empty index of the primary key and no other
PrimaryKeyIndex(schema) ==
    IF primary_key(schema) /= "" THEN [c \in {primary_key(schema)} |-> EmptyDict]
    ELSE EmptyDict

\* Table.__init__
Table_init(schema) == [rows |-> <<>>, indexes |-> PrimaryKeyIndex(schema)]

\* Table._validate_type
validate_type(value, data_type) ==
    \/ IsNone(value)
    \/ IF data_type = "INT" THEN value.tag = "int"
       ELSE IF data_type \in {"VARCHAR", "TEXT"} THEN value.tag = "str"
       ELSE TRUE

\* Table._pk_exists
pk_exists(T, schema, pk_value) ==
    \E i \in DOMAIN T.rows : PyEq(Get(T.rows[i], primary_key(schema), Null), pk_value)

\* the column loop of Table.validate_row: "" when every column passes, else
\* the exception of the first check that fails (the values of the model are
\* shorter than every max_length)
RECURSIVE ValidateColumns(_, _, _)
ValidateColumns(schema, row, i) ==
    IF i > Len(schema) THEN ""
    ELSE IF "NOT_NULL" \in schema[i].constraints /\ schema[i].name \notin DOMAIN row
    THEN "ConstraintError"
    ELSE IF schema[i].name \in DOMAIN row /\ ~validate_type(row[schema[i].name], schema[i].data_type)
    THEN "SchemaError"
    ELSE ValidateColumns(schema, row, i + 1)

\* Table.validate_row: "" when the row is valid, else the exception raised
validate_row(T, schema, row) ==
    IF ValidateColumns(schema, row, 1) /= "" THEN ValidateColumns(schema, row, 1)
    ELSE IF /\ primary_key(schema) /= ""
            /\ primary_key(schema) \in DOMAIN row
            /\ pk_exists(T, schema, row[primary_key(schema)])
    THEN "ConstraintError"
    ELSE ""

\* index[value].append(row_index), with the empty list for a new value
AddPosition(index, value, row_index) ==
    [k \in DOMAIN index \cup {value} |->
        IF k = value
        THEN (IF value \in DOMAIN index THEN Append(index[value], row_index)
              ELSE <<row_index>>)
        ELSE index[k]]

\* Table._update_indexes
update_indexes(indexes, row, row_index) ==
    [c \in DOMAIN indexes |->
        IF c \in DOMAIN row THEN AddPosition(indexes[c], row[c], row_index)
        ELSE indexes[c]]

\* Table.insert: raised is "" when the row was appended
table_insert(T, schema, row) ==
    IF validate_row(T, schema, row) /= ""
    THEN [table |-> T, raised |-> validate_row(T, schema, row), count |-> 0]
    ELSE [table |-> [rows |-> Append(T.rows, row),
                     indexes |-> update_indexes(T.indexes, row, Len(T.rows))],
          raised |-> "", count |-> Len(T.rows)]

\* the list comprehension of Table.select: str(row.get(col, '')) == value
ScanRows(rows, col, value) ==
    SelectSeq(rows, LAMBDA row : Get(row, col, StrV("")).s = value)

\* Table.select: the WHERE clause is split at '='; the value is the text
\* after it without quotes, and an index is asked for that text
table_select(T, where) ==
    IF where = NoWhere THEN [rows |-> T.rows, raised |-> ""]
    ELSE IF ~HasEq(where) THEN [rows |-> <<>>, raised |-> ""]
    ELSE IF SplitCol(where) \in DOMAIN T.indexes
    THEN LET index == T.indexes[SplitCol(where)]
             row_indices == Get(index, StrV(where.val), <<>>)
         IN IF \E k \in DOMAIN row_indices : row_indices[k] >= Len(T.rows)
            THEN [rows |-> <<>>, raised |-> "IndexError"]
            ELSE [rows |-> [k \in DOMAIN row_indices |-> T.rows[row_indices[k] + 1]],
                  raised |-> ""]
    ELSE [rows |-> ScanRows(T.rows, SplitCol(where), where.val), raised |-> ""]

\* Table.update: the rows are changed in place and no index is touched
table_update(T, set_clause, where) ==
    LET hits == {i \in DOMAIN T.rows :
                    (where /= NoWhere /\ HasEq(where)) =>
                        Get(T.rows[i], SplitCol(where), StrV("")).s = where.val}
    IN [table |-> [T EXCEPT !.rows = [i \in DOMAIN T.rows |->
                                         IF i \in hits THEN ApplySet(T.rows[i], set_clause)
                                         ELSE T.rows[i]]],
        raised |-> "", count |-> Cardinality(hits)]

\* Table._rebuild_indexes from row i on: only the index of the primary key
\* is created again
RECURSIVE rebuild_from(_, _, _)
rebuild_from(indexes, rows, i) ==
    IF i > Len(rows) THEN indexes
    ELSE rebuild_from(update_indexes(indexes, rows[i], i - 1), rows, i + 1)

\* Table._rebuild_indexes
rebuild_indexes(rows, schema) == rebuild_from(PrimaryKeyIndex(schema), rows, 1)

\* Table.delete
table_delete(T, schema, where) ==
    LET new_rows == SelectSeq(T.rows, LAMBDA row :
                        Get(row, SplitCol(where), StrV("")).s /= where.val)
    IN IF where = NoWhere
       THEN [table |-> [rows |-> <<>>, indexes |-> EmptyDict],
             raised |-> "", count |-> Len(T.rows)]
       ELSE IF HasEq(where)
       THEN [table |-> [rows |-> new_rows, indexes |-> rebuild_indexes(new_rows, schema)],
             raised |-> "", count |-> Len(T.rows) - Len(new_rows)]
       ELSE [table |-> T, raised |-> "", count |-> 0]

\* the index Table.create_index builds from the rows i.. that hold the column
RECURSIVE build_from(_, _, _, _)
build_from(index, rows, column, i) ==
    IF i > Len(rows) THEN index
    ELSE IF column \in DOMAIN rows[i]
    THEN build_from(AddPosition(index, rows[i][column], i - 1), rows, column, i + 1)
    ELSE build_from(index, rows, column, i + 1)

\* Table.create_index: nothing is done for a column that has an index
table_create_index(T, column) ==
    IF column \in DOMAIN T.indexes THEN T
    ELSE [T EXCEPT !.indexes =
             [c \in DOMAIN T.indexes \cup {column} |->
                 IF c = column THEN build_from(EmptyDict, T.rows, column, 1)
                 ELSE T.indexes[c]]]

(***************************************************************************)
(* Inputs of the single-table specification                                *)
(***************************************************************************)
ConstraintWords == {<<>>, <<"PRIMARY", "KEY">>, <<"UNIQUE">>, <<"NOT", "NULL">>}

\* CREATE TABLE t (id INT <words>, name VARCHAR(50))
MainColumnTexts ==
    {<<[name |-> "id", type |-> "INT", len |-> "None", words |-> w],
       [name |-> "name", type |-> "VARCHAR", len |-> "50", words |-> <<>>]>> :
        w \in ConstraintWords}

IdValues == {Null, IntV("1"), IntV("2")}
NameValues == {StrV("John"), StrV("Jane")}

\* VALUES (id, name), and one list of the wrong length
MainValues == {<<i, n>> : i \in IdValues, n \in NameValues} \cup {<<IntV("1")>>}

MainWheres ==
    {NoWhere} \cup {[col |-> "id", op |-> o, val |-> "1"] : o \in {"=", "!=", ">"}}
              \cup {[col |-> "name", op |-> "=", val |-> "John"]}

MainIndexColumns == {"id"}

MainSets == {[c \in {"name"} |-> StrV("Jane")], [c \in {"id"} |-> IntV("2")]}

(***************************************************************************)
(* Actions: one executed statement each                                    *)
(***************************************************************************)
CreateTable(tbl, texts) ==
    /\ stmt' = [Query("CREATE_TABLE", tbl) EXCEPT
                   !.columns = parse_create_table(tbl, texts).columns]
    /\ Done(stmt')

Insert(tbl, values) ==
    /\ stmt' = [Query("INSERT", tbl) EXCEPT !.values = values]
    /\ Len(get_all_rows(execute(Disk, stmt').disk, tbl)) <= MaxRows
    /\ Done(stmt')

Select(tbl) ==
    /\ stmt' = Query("SELECT", tbl)
    /\ Done(stmt')

Update(tbl, set, where) ==
    /\ stmt' = [Query("UPDATE", tbl) EXCEPT !.set = set, !.where = where]
    /\ Done(stmt')

Delete(tbl, where) ==
    /\ stmt' = [Query("DELETE", tbl) EXCEPT !.where = where]
    /\ Done(stmt')

DropTable(tbl) ==
    /\ stmt' = Query("DROP_TABLE", tbl)
    /\ Done(stmt')

\* IndexManager.create_index called on its own
CreateIndex(tbl, column) ==
    /\ SetDisk(create_index(Disk, tbl, column))
    /\ stmt' = [Query("CREATE_INDEX", tbl) EXCEPT !.column = column]
    /\ result' = Ok(0, <<>>)
    /\ UNCHANGED <<wr, pc, loaded, prow, table_rows, table_indexes>>

\* no open()/dump() has been started
NoWrite == [file |-> "none", table |-> "", column |-> "", old |-> NoFile, new |-> NoFile, state |-> "closed"]

\* the state after Storage(), create_database and QueryExecutor(storage, db)
Init ==
    /\ tableDir = [t \in Tables |-> FALSE]
    /\ schemaFile = [t \in Tables |-> NoFile]
    /\ dataFile = [t \in Tables |-> NoFile]
    /\ indexFile = [t \in Tables |-> [c \in Columns |-> NoFile]]
    /\ meta = MetaDict(<<>>)
    /\ stmt = NoStmt
    /\ result = Ok(0, <<>>)
    /\ wr = NoWrite
    /\ pc = [c \in Clients |-> "idle"]
    /\ loaded = [c \in Clients |-> <<>>]
    /\ prow = [c \in Clients |-> EmptyDict]
    /\ table_rows = Table_init(TableSchema).rows
    /\ table_indexes = Table_init(TableSchema).indexes

Next ==
    \/ \E tbl \in MainTables, texts \in MainColumnTexts : CreateTable(tbl, texts)
    \/ \E tbl \in MainTables, values \in MainValues : Insert(tbl, values)
    \/ \E tbl \in MainTables : Select(tbl)
    \/ \E tbl \in MainTables, set \in MainSets, where \in MainWheres : Update(tbl, set, where)
    \/ \E tbl \in MainTables, where \in MainWheres : Delete(tbl, where)
    \/ \E tbl \in MainTables : DropTable(tbl)
    \/ \E tbl \in MainTables, column \in MainIndexColumns : CreateIndex(tbl, column)

Spec == Init /\ [][Next]_vars

(***************************************************************************)
(* Properties of the single-table specification                            *)
(***************************************************************************)
\* the columns of the persisted schema of tbl, <<>> when it is no schema dict
SchemaColumns(d, tbl) ==
    IF d.schema[tbl].exists /\ d.schema[tbl].st = "ok" /\ d.schema[tbl].kind = "dict"
    THEN d.schema[tbl].columns ELSE <<>>

\* the literal of an INSERT and a stored value are the same value of the column
SameValue(lit, stored) == IsNone(lit) = IsNone(stored) /\ lit.s = stored.s

\* the step runs an INSERT into tbl / an UPDATE of tbl / a DELETE on tbl
InsertStep(tbl) == stmt'.type = "INSERT" /\ stmt'.table = tbl
UpdateStep(tbl) == stmt'.type = "UPDATE" /\ stmt'.table = tbl
DeleteStep(tbl) == stmt'.type = "DELETE" /\ stmt'.table = tbl

\* the INSERT of the step gives a column that carries the constraint the
\* value that a stored row holds in it
RepeatsValue(tbl, constraint) ==
    LET cols == SchemaColumns(Disk, tbl)
        rows == get_all_rows(Disk, tbl)
    IN \E i \in DOMAIN cols \cap DOMAIN stmt'.values :
          /\ constraint \in cols[i].constraints
          /\ \E k \in DOMAIN rows : SameValue(stmt'.values[i], rows[k][cols[i].name])

\* C1: once a row with key k is stored in a table with a PRIMARY KEY column,
\* an INSERT whose PRIMARY KEY value equals k returns a failure result and
\* leaves the row store as it was.
C1_PrimaryKeyRejectsDuplicate ==
    [][\A tbl \in MainTables :
          InsertStep(tbl) /\ RepeatsValue(tbl, "PRIMARY KEY")
              => ~result'.success /\ dataFile' = dataFile]_vars

\* no two stored rows of tbl hold equal values in a UNIQUE column
NoDupUnique(d, tbl) ==
    LET cols == SchemaColumns(d, tbl)
        rows == get_all_rows(d, tbl)
    IN \A i \in DOMAIN cols :
          "UNIQUE" \in cols[i].constraints =>
              \A j, k \in DOMAIN rows :
                  j /= k => Get(rows[j], cols[i].name, Null) /= Get(rows[k], cols[i].name, Null)

\* C2: an INSERT whose value for a UNIQUE column equals the value a stored
\* row holds in that column returns a failure result and leaves the row store
\* unchanged, and no INSERT makes two stored rows agree on a UNIQUE column.
C2_UniqueEnforced ==
    [][\A tbl \in MainTables :
          InsertStep(tbl) =>
              /\ RepeatsValue(tbl, "UNIQUE") => ~result'.success /\ dataFile' = dataFile
              /\ NoDupUnique(Disk, tbl) => NoDupUnique(Disk', tbl)]_vars

\* an INSERT was refused for a duplicate while two rows with distinct values
\* of the UNIQUE column are stored
C2_Witness ==
    /\ stmt.type = "INSERT"
    /\ result.error = "Duplicate value for unique column"
    /\ Len(get_all_rows(Disk, "t")) = 2
    /\ \E i \in DOMAIN SchemaColumns(Disk, "t") :
           "UNIQUE" \in SchemaColumns(Disk, "t")[i].constraints

\* the INSERT of the step gives NULL to a NOT NULL column
NullInNotNull(tbl) ==
    LET cols == SchemaColumns(Disk, tbl)
    IN \E i \in DOMAIN cols \cap DOMAIN stmt'.values :
          "NOT NULL" \in cols[i].constraints /\ IsNone(stmt'.values[i])

\* C3: an INSERT that supplies NULL for a NOT NULL column returns a failure
\* result and leaves every file of the table as it was.
C3_NotNullEnforced ==
    [][\A tbl \in MainTables :
          InsertStep(tbl) /\ NullInNotNull(tbl)
              => ~result'.success /\ Disk' = Disk]_vars

\* an INSERT with NULL in the NOT NULL column was refused with rows stored
C3_Witness ==
    /\ stmt.type = "INSERT"
    /\ result.error = "cannot be NULL"
    /\ IsNone(stmt.values[1])
    /\ get_all_rows(Disk, "t") /= <<>>

\* the row an INSERT was given: every column mapped to the inserted value
LiteralRow(cols, values) ==
    [c \in {cols[i].name : i \in DOMAIN cols} |->
        values[CHOOSE i \in DOMAIN cols : cols[i].name = c]]

\* C4: every successful INSERT appends exactly the inserted row (every column
\* mapped to the inserted value), and SELECT * returns the stored rows in
\* order, so SELECT * after n INSERTs returns the n inserted rows.
C4_RoundTrip ==
    /\ [][\A tbl \in MainTables :
             InsertStep(tbl) /\ result'.success =>
                 get_all_rows(Disk', tbl) =
                     Append(get_all_rows(Disk, tbl),
                            LiteralRow(SchemaColumns(Disk, tbl), stmt'.values))]_vars
    /\ [](stmt.type = "SELECT" /\ result.success =>
             /\ result.rows = get_all_rows(Disk, stmt.table)
             /\ result.count = Len(result.rows))

\* the rows of tbl that satisfy "col = val" before the step
EqMatches(row, where) == Get(row, where.col, StrV("")).s = where.val

\* C5: an UPDATE ... SET x=v WHERE c=k that returns success with a count of at
\* least 1 leaves x=v in every persisted row that matched c=k.
C5_UpdateDurable ==
    [][\A tbl \in MainTables :
          (UpdateStep(tbl) /\ stmt'.where.op = "=" /\ result'.success /\ result'.count >= 1) =>
              LET before == get_all_rows(Disk, tbl)
                  after == get_all_rows(Disk', tbl)
              IN /\ Len(after) = Len(before)
                 /\ \A i \in DOMAIN before :
                        EqMatches(before[i], stmt'.where) =>
                            \A x \in DOMAIN stmt'.set : Get(after[i], x, Null) = stmt'.set[x]]_vars

\* C6: after DELETE ... WHERE c=k reports n removed rows, the persisted row
\* store is the old one without the rows that satisfied c=k, in the old
\* order, and it is n rows shorter.
C6_DeleteDurable ==
    [][\A tbl \in MainTables :
          (DeleteStep(tbl) /\ stmt'.where.op = "=" /\ result'.success) =>
              LET before == get_all_rows(Disk, tbl)
                  after == get_all_rows(Disk', tbl)
              IN /\ after = SelectSeq(before, LAMBDA r : ~EqMatches(r, stmt'.where))
                 /\ Len(after) = Len(before) - result'.count]_vars

\* C7: with an index on column c, after a DELETE that reports removing a row
\* whose c is v, get_by_index(t, c, v) returns exactly the rows with c = v
\* among those the DELETE leaves, without an out-of-range position.
C7_IndexNotStale ==
    [][\A tbl \in MainTables, c \in MainIndexColumns :
          (DeleteStep(tbl) /\ stmt'.where.op = "=" /\ result'.success
                /\ indexFile[tbl][c].exists) =>
              LET before == get_all_rows(Disk, tbl)
                  remaining == SelectSeq(before, LAMBDA r : ~EqMatches(r, stmt'.where))
              IN \A i \in DOMAIN before :
                    (EqMatches(before[i], stmt'.where) /\ ~IsNone(before[i][c])) =>
                        LET got == get_by_index(Disk', tbl, c, before[i][c])
                        IN /\ ~got.err
                           /\ got.rows = SelectSeq(remaining, LAMBDA r : r[c] = before[i][c])]_vars

\* C16: a successful INSERT stores, for a column declared INT that is given
\* an integer literal, that integer, for a VARCHAR column the string of the
\* literal, and NULL as NULL: the declared type persisted by CREATE TABLE
\* decides the stored value.
C16_TypeCoercion ==
    [][\A tbl \in MainTables :
          (InsertStep(tbl) /\ result'.success) =>
              LET cols == SchemaColumns(Disk, tbl)
                  after == get_all_rows(Disk', tbl)
                  row == after[Len(after)]
              IN \A i \in DOMAIN cols :
                    LET lit == stmt'.values[i]
                    IN row[cols[i].name] =
                           (IF IsNone(lit) THEN Null
                            ELSE IF cols[i].data_type = "INT" /\ lit.tag = "int" THEN lit
                            ELSE IF cols[i].data_type = "VARCHAR" THEN Str(lit)
                            ELSE row[cols[i].name])]_vars

\* the values looked up through an index
IndexProbes == {IntV("1"), IntV("2"), StrV("1"), StrV("2")}

\* every index of tbl answers every lookup with exactly the stored rows whose
\* column holds the value
IndexFresh(d, tbl) ==
    \A c \in MainIndexColumns :
        d.index[tbl][c].exists =>
            \A v \in IndexProbes :
                /\ ~get_by_index(d, tbl, c, v).err
                /\ get_by_index(d, tbl, c, v).rows =
                       SelectSeq(get_all_rows(d, tbl), LAMBDA r : Get(r, c, Null) = v)

\* C17: a successful INSERT into a table whose indexes are exact leaves them
\* exact: the new row is found through every index of the table.
C17_IndexFreshUnderInsert ==
    [][\A tbl \in MainTables :
          (InsertStep(tbl) /\ result'.success /\ IndexFresh(Disk, tbl))
              => IndexFresh(Disk', tbl)]_vars

\* C19: an UPDATE with a WHERE clause reports as its count the number of
\* rows SELECT * with the same WHERE clause returns, and hands to the store
\* every row that the clause does not select as it was.
C19_UpdateUsesSelectWhere ==
    [][\A tbl \in MainTables :
          (UpdateStep(tbl) /\ stmt'.where /= NoWhere /\ result'.success) =>
              LET before == get_all_rows(Disk, tbl)
                  written == IF result'.count > 0 THEN schemaFile'[tbl].rows ELSE before
              IN /\ result'.count = Len(apply_where(before, stmt'.where))
                 /\ Len(written) = Len(before)
                 /\ \A i \in DOMAIN before :
                        ~WhereKeeps(before[i], stmt'.where) => written[i] = before[i]]_vars

\* the table name is in meta['tables']
Registered(d, tbl) == tbl \in SeqToSet(load_metadata(d))

\* C11: after every completed operation (CREATE TABLE, DROP TABLE, INSERT,
\* UPDATE, DELETE, create_index) a table name is in the registry of meta.json
\* if and only if the schema file of that table exists.
C11_RegistryIffSchema ==
    \A tbl \in Tables : Registered(Disk, tbl) <=> schemaFile[tbl].exists

\* a DROP TABLE of a registered table has completed: the name and the schema
\* file are both gone
C11_Witness ==
    /\ stmt.type = "DROP_TABLE" /\ result.success
    /\ ~Registered(Disk, stmt.table) /\ ~schemaFile[stmt.table].exists
    /\ tableDir = [t \in Tables |-> FALSE]

(***************************************************************************)
(* The join specification: tables l(a) and r(b), SELECT * FROM l JOIN r    *)
(***************************************************************************)
JoinTables == {"l", "r"}

\* CREATE TABLE l (a INT) and CREATE TABLE r (b VARCHAR(50))
JoinColumnTexts(tbl) ==
    IF tbl = "l" THEN <<[name |-> "a", type |-> "INT", len |-> "None", words |-> <<>>]>>
    ELSE <<[name |-> "b", type |-> "VARCHAR", len |-> "50", words |-> <<>>]>>

JoinValues == {Null, IntV("1"), StrV("None")}

\* no ON clause; ON l.a; ON l.a = r.b; ON l.A = r.b; ON l.id = r.b
JoinClauses ==
    {[table |-> "r", on |-> "none", left |-> "", right |-> ""],
     [table |-> "r", on |-> "noeq", left |-> "", right |-> ""],
     [table |-> "r", on |-> "eq", left |-> "a", right |-> "b"],
     [table |-> "r", on |-> "eq", left |-> "A", right |-> "b"],
     [table |-> "r", on |-> "eq", left |-> "id", right |-> "b"]}

SelectJoin(tbl, join) ==
    /\ stmt' = [Query("SELECT", tbl) EXCEPT !.join = join]
    /\ Done(stmt')

NextJoin ==
    \/ \E tbl \in JoinTables : CreateTable(tbl, JoinColumnTexts(tbl))
    \/ \E tbl \in JoinTables, v \in JoinValues : Insert(tbl, <<v>>)
    \/ \E join \in JoinClauses : SelectJoin("l", join)

SpecJoin == Init /\ [][NextJoin]_vars

\* the merged rows of the pairs (L[i], R[j]) with L[i].a equal to R[j].b,
\* from pair number k on, pairs numbered by left row, then right row
RECURSIVE EqualPairs(_, _, _, _, _, _)
EqualPairs(L, a, R, b, right_table, k) ==
    IF k > Len(L) * Len(R) THEN <<>>
    ELSE LET i == ((k - 1) \div Len(R)) + 1
             j == ((k - 1) % Len(R)) + 1
         IN (IF PyEq(L[i][a], R[j][b])
             THEN <<merge_rows(L[i], R[j], right_table)>> ELSE <<>>)
            \o EqualPairs(L, a, R, b, right_table, k + 1)

\* C8: without WHERE, SELECT * FROM l JOIN r ON l.a = r.b returns the merged
\* row of every pair (x, y) with x.a equal to y.b, by left row then right row,
\* and nothing else; without an ON clause, or with one that has no '=', it
\* returns |L| * |R| rows.
C8_JoinCorrect ==
    (stmt.type = "SELECT" /\ stmt.join.table /= "" /\ result.success) =>
        LET L == get_all_rows(Disk, stmt.table)
            R == get_all_rows(Disk, stmt.join.table)
        IN /\ (stmt.join.on = "eq" /\ stmt.join.left = "a" /\ stmt.join.right = "b")
                  => result.rows = EqualPairs(L, "a", R, "b", stmt.join.table, 1)
           /\ stmt.join.on /= "eq" => Len(result.rows) = Len(L) * Len(R)

(***************************************************************************)
(* The crash specification: the writes of Storage and IndexManager, each   *)
(* "with open(path, 'w') as f: dump(content, f)", step by step.  open()    *)
(* truncates the target, dump() writes through a buffer, leaving the with  *)
(* block flushes and closes; the process may die in between.               *)
(***************************************************************************)
\* the rows the executor hands to insert_row for the table t(id, name)
StoredRows == {[id |-> i, name |-> n] : i \in {Null, StrV("1")}, n \in {StrV("John"), StrV("Jane")}}

\* the file a write is aimed at
FileAt(d, w) ==
    IF w.file = "data" THEN d.data[w.table]
    ELSE IF w.file = "schema" THEN d.schema[w.table]
    ELSE IF w.file = "index" THEN d.index[w.table][w.column]
    ELSE d.meta

\* the target of w holds content, every other file is as before
PutFile(w, content) ==
    /\ dataFile' = IF w.file = "data" THEN [dataFile EXCEPT ![w.table] = content] ELSE dataFile
    /\ schemaFile' = IF w.file = "schema" THEN [schemaFile EXCEPT ![w.table] = content] ELSE schemaFile
    /\ indexFile' = IF w.file = "index" THEN [indexFile EXCEPT ![w.table][w.column] = content] ELSE indexFile
    /\ meta' = IF w.file = "meta" THEN content ELSE meta

\* open(path, 'w') of the target of w: the file exists and is empty
OpenFile(w) ==
    /\ wr' = w
    /\ PutFile(w, TruncatedFile)
    /\ UNCHANGED <<stmt, result, pc, loaded, prow, table_rows, table_indexes>>

\* save_table_schema has written schema.json and the name is not registered
PendingMeta ==
    /\ wr.state = "closed" /\ wr.file = "schema"
    /\ ~meta_unreadable(Disk)
    /\ wr.table \notin SeqToSet(load_metadata(Disk))

\* a Storage call can start: no write is in flight
AtRest == wr.state /= "open" /\ ~PendingMeta

\* Storage.insert_row up to open(data_file, 'wb') (lines 88-103)
OpenInsertRow(tbl, row) ==
    /\ AtRest
    /\ tableDir[tbl]
    /\ Len(get_all_rows(Disk, tbl)) < MaxRows
    /\ tableDir' = tableDir
    /\ OpenFile([file |-> "data", table |-> tbl, column |-> "", old |-> dataFile[tbl],
                 new |-> insert_row(Disk, tbl, row).data[tbl], state |-> "open"])

\* Storage.save_table_schema up to open(schema_path, 'w') (lines 45-50)
OpenSaveSchema(tbl, texts) ==
    /\ AtRest
    /\ tableDir' = [tableDir EXCEPT ![tbl] = TRUE]
    /\ OpenFile([file |-> "schema", table |-> tbl, column |-> "", old |-> schemaFile[tbl],
                 new |-> execute_create_table(Disk, parse_create_table(tbl, texts)).disk.schema[tbl],
                 state |-> "open"])

\* the rest of save_table_schema up to open(meta_path, 'w') in
\* _save_metadata (lines 54-57, 164-165)
OpenSaveMetadata ==
    /\ PendingMeta
    /\ tableDir' = tableDir
    /\ OpenFile([file |-> "meta", table |-> wr.table, column |-> "", old |-> meta,
                 new |-> MetaDict(Append(load_metadata(Disk), wr.table)), state |-> "open"])

\* IndexManager.create_index up to open(index_file, 'wb') (lines 19-39)
OpenCreateIndex(tbl, column) ==
    /\ AtRest
    /\ tableDir' = [tableDir EXCEPT ![tbl] = TRUE]
    /\ OpenFile([file |-> "index", table |-> tbl, column |-> column, old |-> indexFile[tbl][column],
                 new |-> create_index(Disk, tbl, column).index[tbl][column], state |-> "open"])

\* dump() has pushed a part of the content to the file
Flush ==
    /\ wr.state = "open"
    /\ FileAt(Disk, wr) = TruncatedFile
    /\ PutFile(wr, PartialFile)
    /\ UNCHANGED <<tableDir, stmt, result, wr, pc, loaded, prow, table_rows, table_indexes>>

\* the with block is left: the whole content is in the file
Close ==
    /\ wr.state = "open"
    /\ PutFile(wr, wr.new)
    /\ wr' = [wr EXCEPT !.state = "closed"]
    /\ UNCHANGED <<tableDir, stmt, result, pc, loaded, prow, table_rows, table_indexes>>

\* the process dies during the write
Crash ==
    /\ wr.state = "open"
    /\ wr' = [wr EXCEPT !.state = "crashed"]
    /\ UNCHANGED <<tableDir, schemaFile, dataFile, indexFile, meta, stmt, result, pc, loaded, prow, table_rows, table_indexes>>

NextCrash ==
    \/ \E tbl \in MainTables, row \in StoredRows : OpenInsertRow(tbl, row)
    \/ \E tbl \in MainTables, texts \in MainColumnTexts : OpenSaveSchema(tbl, texts)
    \/ OpenSaveMetadata
    \/ \E tbl \in MainTables, column \in MainIndexColumns : OpenCreateIndex(tbl, column)
    \/ Flush
    \/ Close
    \/ Crash

SpecCrash == Init /\ [][NextCrash]_vars

\* C11, inside save_table_schema: at every point of the write sequence a
\* registered table has a schema file (the entry is written after it).
C11_RegistryAfterSchema ==
    \A tbl \in Tables :
        (~meta_unreadable(Disk) /\ Registered(Disk, tbl)) => schemaFile[tbl].exists

\* C9: when the process has died during a write, the target file holds the
\* complete old content or the complete new content.
C9_AtomicReplace ==
    wr.state = "crashed" => FileAt(Disk, wr) \in {wr.old, wr.new}

(***************************************************************************)
(* The concurrency specification: clients running INSERT statements on     *)
(* one table, a step for each read and each write of the row store.        *)
(***************************************************************************)
\* _execute_insert up to the call of insert_row (lines 108-162): the schema
\* is read, the row built and checked against the rows stored now
Validate(c, tbl, values) ==
    /\ pc[c] = "idle"
    /\ Len(get_all_rows(Disk, tbl)) < MaxRows
    /\ LET q == [Query("INSERT", tbl) EXCEPT !.values = values]
           out == execute_insert(Disk, q)
       IN IF out.res.success
          THEN /\ pc' = [pc EXCEPT ![c] = "checked"]
               /\ prow' = [prow EXCEPT ![c] = out.res.rows[1]]
          ELSE /\ pc' = [pc EXCEPT ![c] = "failed"]
               /\ prow' = prow
    /\ UNCHANGED <<tableDir, schemaFile, dataFile, indexFile, meta, stmt, result, wr, loaded, table_rows, table_indexes>>

\* Storage.insert_row, "Load existing data" (lines 91-97)
Load(c, tbl) ==
    /\ pc[c] = "checked"
    /\ loaded' = [loaded EXCEPT ![c] = get_all_rows(Disk, tbl)]
    /\ pc' = [pc EXCEPT ![c] = "loaded"]
    /\ UNCHANGED <<tableDir, schemaFile, dataFile, indexFile, meta, stmt, result, wr, prow, table_rows, table_indexes>>

\* Storage.insert_row, "Append new row" and "Save back" (lines 100-106), and
\* the success result of _execute_insert
Save(c, tbl) ==
    /\ pc[c] = "loaded"
    /\ dataFile' = [dataFile EXCEPT ![tbl] = RowList(Append(loaded[c], prow[c]))]
    /\ pc' = [pc EXCEPT ![c] = "done"]
    /\ UNCHANGED <<tableDir, schemaFile, indexFile, meta, stmt, result, wr, loaded, prow, table_rows, table_indexes>>

\* the clients take up their next statements
Return ==
    /\ \A c \in Clients : pc[c] \in {"done", "failed"}
    /\ pc' = [c \in Clients |-> "idle"]
    /\ loaded' = [c \in Clients |-> <<>>]
    /\ prow' = [c \in Clients |-> EmptyDict]
    /\ UNCHANGED <<tableDir, schemaFile, dataFile, indexFile, meta, stmt, result, wr, table_rows, table_indexes>>

\* CREATE TABLE while no INSERT is running
CreateTableAtRest(tbl, texts) ==
    /\ \A c \in Clients : pc[c] = "idle"
    /\ ~tableDir[tbl]
    /\ CreateTable(tbl, texts)

NextConc ==
    \/ \E tbl \in MainTables, texts \in MainColumnTexts : CreateTableAtRest(tbl, texts)
    \/ \E c \in Clients, tbl \in MainTables, values \in MainValues : Validate(c, tbl, values)
    \/ \E c \in Clients, tbl \in MainTables : Load(c, tbl)
    \/ \E c \in Clients, tbl \in MainTables : Save(c, tbl)
    \/ Return

SpecConc == Init /\ [][NextConc]_vars

\* C10: when two INSERTs of different rows into one table have run
\* concurrently and both have reported success, the row store holds both rows.
C10_NoLostInsert ==
    \A c1, c2 \in Clients :
        (c1 /= c2 /\ pc[c1] = "done" /\ pc[c2] = "done" /\ prow[c1] /= prow[c2]) =>
            {prow[c1], prow[c2]} \subseteq SeqToSet(get_all_rows(Disk, "t"))

(***************************************************************************)
(* The query specification: SELECT with WHERE and with GROUP BY on the     *)
(* table t(id INT, name VARCHAR(50)).                                      *)
(***************************************************************************)
\* CREATE TABLE t (id INT, name VARCHAR(50))
SelectColumnTexts == {texts \in MainColumnTexts : texts[1].words = <<>>}

SelectValues ==
    {<<IntV("1"), StrV("John")>>, <<IntV("2"), StrV("Jane")>>, <<Null, StrV("John")>>}

Operators == {"=", "!=", ">", "<", ">=", "<="}

\* WHERE id <op> 1 and WHERE name <op> 'Jane'
SelectWheres ==
    {[col |-> "id", op |-> o, val |-> "1"] : o \in Operators}
    \cup {[col |-> "name", op |-> o, val |-> "Jane"] : o \in Operators}

Aggregates == {Col("COUNT", "*"), Col("COUNT", "id"), Col("SUM", "id"), Col("AVG", "id")}

\* SELECT * FROM tbl WHERE <where>
SelectWhere(tbl, where) ==
    /\ stmt' = [Query("SELECT", tbl) EXCEPT !.where = where]
    /\ Done(stmt')

\* SELECT g, AGG FROM tbl GROUP BY g
SelectGroup(tbl, g, agg) ==
    /\ stmt' = [Query("SELECT", tbl) EXCEPT !.cols = <<Col("", g), agg>>, !.group_by = g]
    /\ Done(stmt')

MaxLimit == 3

\* ORDER BY id|name [ASC|DESC], or no ORDER BY
Orders == {NoOrder} \cup {[col |-> c, dir |-> w] : c \in {"id", "name"}, w \in {"", "ASC", "DESC"}}

\* LIMIT 0..MaxLimit, or no LIMIT
Limits == {NoLimit} \cup 0..MaxLimit

\* SELECT * FROM tbl [ORDER BY col [ASC|DESC]] [LIMIT n]
SelectOrdered(tbl, order, limit) ==
    /\ stmt' = parse_order_limit(Query("SELECT", tbl), order, limit)
    /\ Done(stmt')

NextSelect ==
    \/ \E tbl \in MainTables, texts \in SelectColumnTexts : CreateTable(tbl, texts)
    \/ \E tbl \in MainTables, values \in SelectValues : Insert(tbl, values)
    \/ \E tbl \in MainTables, where \in SelectWheres : SelectWhere(tbl, where)
    \/ \E tbl \in MainTables, agg \in Aggregates : SelectGroup(tbl, "name", agg)
    \/ \E tbl \in MainTables, order \in Orders, limit \in Limits :
           SelectOrdered(tbl, order, limit)

SpecSelect == Init /\ [][NextSelect]_vars

\* "value op literal": numeric when both operands are numeric, else the
\* lexical comparison of the two strings
Compare(v, op, lit) ==
    IF IsNumeric(v.s) /\ IsNumeric(lit) THEN Cmp(Num(v.s), op, Num(lit))
    ELSE Cmp(Rank(v.s), op, Rank(lit))

\* the rows that hold a value (not NULL) in the column
WithValue(rows, col) ==
    SelectSeq(rows, LAMBDA r : col \in DOMAIN r /\ ~IsNone(r[col]))

\* C18: SELECT * FROM t WHERE col op literal keeps, of the rows that hold a
\* value in col, exactly those for which "value op literal" is true, for each
\* of the six operators: numerically when both operands are numeric,
\* lexically otherwise.
C18_WhereSemantics ==
    (stmt.type = "SELECT" /\ stmt.where /= NoWhere /\ stmt.group_by = ""
        /\ stmt.join = NoJoin /\ result.success) =>
        WithValue(result.rows, stmt.where.col) =
            SelectSeq(WithValue(get_all_rows(Disk, stmt.table), stmt.where.col),
                      LAMBDA r : Compare(r[stmt.where.col], stmt.where.op, stmt.where.val))

\* C20: SELECT g, AGG FROM t GROUP BY g returns one row per distinct value
\* of g, and the row of each group holds, next to g, the value of AGG over
\* the rows of that group.
C20_GroupByAggregates ==
    (stmt.type = "SELECT" /\ stmt.group_by /= "" /\ result.success) =>
        LET g == stmt.group_by
            rows == get_all_rows(Disk, stmt.table)
            values == {Get(rows[i], g, Null) : i \in DOMAIN rows}
        IN /\ Len(result.rows) = Cardinality(values)
           /\ {Get(result.rows[k], g, Null) : k \in DOMAIN result.rows} = values
           /\ \A k \in DOMAIN result.rows, i \in DOMAIN stmt.cols :
                  stmt.cols[i].fn /= "" =>
                      \E name \in DOMAIN result.rows[k] \ {g} :
                          result.rows[k][name] =
                              AggValue(stmt.cols[i],
                                       SelectSeq(rows, LAMBDA r :
                                           Get(r, g, Null) = Get(result.rows[k], g, Null)))

\* the rows the statement returns when written without its LIMIT clause
\* (the ORDER BY clause is then given to the executor as written)
WithoutLimit(q) == execute_select(Disk, [q EXCEPT !.limit = NoLimit]).res.rows

\* C21: SELECT ... LIMIT n returns the first min(n, m) of the m rows the
\* statement returns without LIMIT, in their order, and reports their number
\* as count; LIMIT 0 returns no rows.
C21_LimitIsPrefix ==
    (stmt.type = "SELECT" /\ stmt.limit /= NoLimit /\ stmt.sql_order = NoOrder
        /\ result.success) =>
        /\ result.rows = Take(WithoutLimit(stmt), stmt.limit)
        /\ result.count = Len(result.rows)

\* the rows in the order ORDER BY asks for: sorted by the column (stable,
\* DESC reversed) when its values are comparable, the original order otherwise
InOrder(rows, order) ==
    IF rows /= <<>> /\ Sortable(rows, order.col)
    THEN Sorted(rows, order.col, order.dir = "DESC") ELSE rows

\* C22: SELECT ... ORDER BY col [ASC|DESC], with or without a LIMIT clause,
\* succeeds and returns its rows sorted by col (stable; DESC in reverse) when
\* the values of col are comparable, and in the original order when not.
C22_OrderBySorts ==
    (stmt.type = "SELECT" /\ stmt.sql_order /= NoOrder /\ table_exists(Disk, stmt.table)) =>
        /\ result.success
        /\ result.rows =
               SubSeq(InOrder(get_all_rows(Disk, stmt.table), stmt.sql_order),
                      1, Len(result.rows))

\* the step runs a SELECT
SelectStep == stmt'.type = "SELECT"

Text(kind, tbl) ==
    [kind |-> kind, table |-> tbl, texts |-> <<>>, values |-> <<>>,
     set |-> EmptyDict, where |-> NoWhere]

NotAString == Text("NOT_A_STRING", "")

\* SQLParser.parse: the parsed query of a statement text
parse(text) ==
    [Query(text.kind, text.table) EXCEPT
        !.columns = parse_create_table(text.table, text.texts).columns,
        !.values = text.values, !.set = text.set, !.where = text.where]

\* str.upper() on the strings of the model
Upper(s) ==
    IF s = "t" THEN "T" ELSE IF s = "id" THEN "ID" ELSE IF s = "name" THEN "NAME"
    ELSE IF s = "John" THEN "JOHN" ELSE IF s = "Jane" THEN "JANE" ELSE s

\* the second word of a column definition: the type as written
TypeWord(col) == IF col.len = "None" THEN col.type ELSE col.type \o "(" \o col.len \o ")"

\* Database._execute_create_table and Database.create_table: the schema is
\* saved, then Table(table_name, columns) reads schema.primary_key of a
\* list and raises, which the handler turns into an error result
db_execute_create_table(d, text) ==
    LET columns == [i \in DOMAIN text.texts |->
                       [name |-> Upper(text.texts[i].name),
                        type |-> TypeWord(text.texts[i]),
                        constraints |-> SeqToSet(text.texts[i].words),
                        max_length |-> "None"]]
    IN [disk |-> save_table_schema(d, Upper(text.table), SchemaDict(columns)),
        res |-> Err("Error creating table")]

\* the typed value of Database._execute_insert (lines 116-127) for a
\* literal of the upper-cased text; NULL is no digit string and stays 'NULL'
db_typed(v) ==
    IF IsNone(v) THEN StrV("NULL")
    ELSE IF v.tag = "str" THEN StrV(Upper(v.s))
    ELSE v

\* Database._execute_insert: no constraint is checked and no type coerced
db_execute_insert(d, text) ==
    LET schema == load_table_schema(d, Upper(text.table))
    IN IF ~schema.exists \/ schema.st /= "ok" \/ schema.kind /= "dict"
       THEN [disk |-> d, res |-> Err("Error inserting")]
       ELSE IF Len(text.values) /= Len(schema.columns)
       THEN [disk |-> d, res |-> Err("Expected values")]
       ELSE LET row == [c \in {schema.columns[i].name : i \in DOMAIN schema.columns} |->
                           db_typed(text.values[CHOOSE i \in DOMAIN schema.columns :
                               /\ schema.columns[i].name = c
                               /\ \A j \in DOMAIN schema.columns :
                                      schema.columns[j].name = c => j <= i])]
            IN [disk |-> insert_row(d, Upper(text.table), row), res |-> Ok(1, <<>>)]

\* Database._execute_select: no table_exists check; WHERE keeps the rows
\* whose str(row.get(col, '')) equals the text after the first '=', and
\* keeps no row when the clause has no '='
db_execute_select(d, text) ==
    LET rows == get_all_rows(d, Upper(text.table))
        kept == IF text.where = NoWhere THEN rows
                ELSE IF HasEq(text.where)
                THEN SelectSeq(rows, LAMBDA row :
                         Get(row, Upper(SplitCol(text.where)), StrV("")).s = Upper(text.where.val))
                ELSE <<>>
    IN [disk |-> d, res |-> Ok(Len(kept), kept)]

\* Database._execute_drop_table
db_execute_drop_table(d, text) ==
    IF d.dir[Upper(text.table)] /\ meta_unreadable(d)
    THEN [disk |-> delete_table(d, Upper(text.table)), res |-> Err("Error dropping table")]
    ELSE IF d.dir[Upper(text.table)]
    THEN [disk |-> delete_table(d, Upper(text.table)), res |-> Ok(0, <<>>)]
    ELSE [disk |-> d, res |-> Err("not found")]

\* Database.execute: query.strip() raises on a value that is no string;
\* the upper-cased text is routed by its first words
db_execute(d, text) ==
    IF text.kind = "NOT_A_STRING" THEN [disk |-> d, res |-> Raise("AttributeError")]
    ELSE IF text.kind = "CREATE_TABLE" THEN db_execute_create_table(d, text)
    ELSE IF text.kind = "INSERT" THEN db_execute_insert(d, text)
    ELSE IF text.kind = "SELECT" THEN db_execute_select(d, text)
    ELSE IF text.kind = "DROP_TABLE" THEN db_execute_drop_table(d, text)
    ELSE [disk |-> d, res |-> Err("Unknown query")]

\* the responses of execute_batch_queries
BatchResponse(status, error, results) ==
    [success |-> error = "", error |-> error, count |-> Len(results), rows |-> <<>>,
     raised |-> FALSE, status |-> status, results |-> results]

\* the loop of execute_batch_queries from member i on (lines 268-270) and
\* the response: an exception of db.execute leaves the loop for the
\* handler at the end (lines 278-282)
RECURSIVE BatchLoop(_, _, _, _)
BatchLoop(d, queries, i, results) ==
    IF i > Len(queries) THEN [disk |-> d, res |-> BatchResponse(200, "", results)]
    ELSE LET out == db_execute(d, queries[i])
         IN IF out.res.raised
            THEN [disk |-> out.disk, res |-> BatchResponse(500, "Batch execution error", <<>>)]
            ELSE BatchLoop(out.disk, queries, i + 1, Append(results, out.res))

\* execute_batch_queries of an existing database
execute_batch_queries(d, queries) ==
    IF queries = <<>> THEN [disk |-> d, res |-> BatchResponse(400, "List of queries required", <<>>)]
    ELSE BatchLoop(d, queries, 1, <<>>)

(***************************************************************************)
(* The facade specification: statement texts given to Database.execute,    *)
(* one by one and as batches.                                              *)
(***************************************************************************)
MaxBatch == 2

FacadeTexts ==
    {[Text("CREATE_TABLE", "t") EXCEPT !.texts = texts] :
        texts \in {x \in MainColumnTexts : x[1].words = <<"UNIQUE">>}}
    \cup {[Text("INSERT", "t") EXCEPT !.values = values] :
             values \in {<<IntV("1"), StrV("John")>>, <<Null, StrV("John")>>, <<IntV("1")>>}}
    \cup {[Text("SELECT", "t") EXCEPT !.where = where] :
             where \in {NoWhere, [col |-> "id", op |-> "=", val |-> "1"]}}
    \cup {[Text("UPDATE", "t") EXCEPT !.set = [c \in {"name"} |-> StrV("Jane")],
                                      !.where = [col |-> "id", op |-> "=", val |-> "1"]]}
    \cup {[Text("DELETE", "t") EXCEPT !.where = [col |-> "id", op |-> "=", val |-> "1"]]}
    \cup {Text("DROP_TABLE", "t")}

\* the lists of at most MaxBatch members, statement texts or other values
Batches ==
    UNION {[1..n -> FacadeTexts \cup {NotAString}] : n \in 0..MaxBatch}

\* the row stores stay within the bound
WithinRows(d) == \A tbl \in Tables : Len(get_all_rows(d, tbl)) <= MaxRows

\* Database.execute(text)
DbExecute(text) ==
    /\ stmt' = [type |-> "Database.execute", text |-> text]
    /\ WithinRows(db_execute(Disk, text).disk)
    /\ SetDisk(db_execute(Disk, text).disk)
    /\ result' = db_execute(Disk, text).res
    /\ UNCHANGED <<wr, pc, loaded, prow, table_rows, table_indexes>>

\* POST /api/databases/<db_name>/execute/batch with the list queries
ExecuteBatch(queries) ==
    /\ stmt' = [type |-> "execute_batch_queries", queries |-> queries]
    /\ WithinRows(execute_batch_queries(Disk, queries).disk)
    /\ SetDisk(execute_batch_queries(Disk, queries).disk)
    /\ result' = execute_batch_queries(Disk, queries).res
    /\ UNCHANGED <<wr, pc, loaded, prow, table_rows, table_indexes>>

NextFacade ==
    \/ \E text \in FacadeTexts : DbExecute(text)
    \/ \E queries \in Batches : ExecuteBatch(queries)

SpecFacade == Init /\ [][NextFacade]_vars

\* the disk on which member i of a batch runs when the members run one
\* after another and a member that is no statement changes nothing
RECURSIVE DiskBefore(_, _, _)
DiskBefore(d, queries, i) ==
    IF i <= 1 THEN d
    ELSE LET before == DiskBefore(d, queries, i - 1)
         IN IF queries[i - 1].kind = "NOT_A_STRING" THEN before
            ELSE db_execute(before, queries[i - 1]).disk

\* C14: the response to a batch of n >= 1 members holds n results, the
\* i-th being the result of the i-th statement run after the ones before it;
\* a member that is no statement gets a failure result in its slot and the
\* other results are kept.
C14_BatchResults ==
    [][(stmt'.type = "execute_batch_queries" /\ stmt'.queries /= <<>>) =>
          LET queries == stmt'.queries
          IN /\ Len(result'.results) = Len(queries)
             /\ \A i \in DOMAIN queries :
                    IF queries[i].kind = "NOT_A_STRING"
                    THEN ~result'.results[i].success
                    ELSE result'.results[i] = db_execute(DiskBefore(Disk, queries, i), queries[i]).res]_vars

\* C15: Database.execute(text) succeeds or fails as
\* QueryExecutor.execute(SQLParser.parse(text)) does on the same files,
\* returns the same rows for a SELECT, and leaves the same files.
C15_FacadeAgreesWithExecutor ==
    [][stmt'.type = "Database.execute" =>
          LET ref == execute(Disk, parse(stmt'.text))
          IN /\ result'.success = ref.res.success
             /\ stmt'.text.kind = "SELECT" => result'.rows = ref.res.rows
             /\ Disk' = ref.disk]_vars

(***************************************************************************)
(* The fault specification: the statements of the executor and the direct  *)
(* calls of Storage on a table whose files an interrupted write may have   *)
(* left truncated.                                                         *)
(***************************************************************************)
\* CREATE TABLE t (id INT UNIQUE | NOT NULL, name VARCHAR(50))
FaultColumnTexts ==
    {texts \in MainColumnTexts : texts[1].words \in {<<"UNIQUE">>, <<"NOT", "NULL">>}}

FaultValues == {<<Null, StrV("John")>>, <<IntV("1"), StrV("John")>>, <<IntV("1")>>}

FaultWheres == {NoWhere, [col |-> "id", op |-> "=", val |-> "1"]}

FaultSets == {[c \in {"name"} |-> StrV("Jane")]}

\* the row handed to insert_row directly
FaultRows == {row \in StoredRows : IsNone(row.id) /\ row.name = StrV("Jane")}

\* the file exists and its content does not parse
Malformed(f) == f.exists /\ f.st /= "ok"

\* data.pkl of tbl is left truncated, as by a write that was cut short
DamageData(tbl) ==
    /\ dataFile[tbl].exists /\ dataFile[tbl].st = "ok"
    /\ dataFile' = [dataFile EXCEPT ![tbl] = TruncatedFile]
    /\ UNCHANGED <<tableDir, schemaFile, indexFile, meta, stmt, result, wr, pc, loaded, prow, table_rows, table_indexes>>

\* schema.json of tbl is left truncated, as by a write that was cut short
DamageSchema(tbl) ==
    /\ schemaFile[tbl].exists /\ schemaFile[tbl].st = "ok"
    /\ schemaFile' = [schemaFile EXCEPT ![tbl] = TruncatedFile]
    /\ UNCHANGED <<tableDir, dataFile, indexFile, meta, stmt, result, wr, pc, loaded, prow, table_rows, table_indexes>>

\* Storage.get_all_rows called on its own: it returns a list
GetAllRows(tbl) ==
    /\ stmt' = Query("get_all_rows", tbl)
    /\ result' = Ok(Len(get_all_rows(Disk, tbl)), get_all_rows(Disk, tbl))
    /\ UNCHANGED <<tableDir, schemaFile, dataFile, indexFile, meta, wr, pc, loaded, prow, table_rows, table_indexes>>

\* Storage.insert_row called on its own: open(data_file, 'wb') raises when
\* the table directory is missing, else the call returns True
InsertRow(tbl, row) ==
    /\ stmt' = Query("insert_row", tbl)
    /\ Len(get_all_rows(Disk, tbl)) < MaxRows
    /\ IF tableDir[tbl]
       THEN SetDisk(insert_row(Disk, tbl, row)) /\ result' = Ok(1, <<row>>)
       ELSE SetDisk(Disk) /\ result' = Raise("FileNotFoundError")
    /\ UNCHANGED <<wr, pc, loaded, prow, table_rows, table_indexes>>

NextFault ==
    \/ \E tbl \in MainTables, texts \in FaultColumnTexts : CreateTable(tbl, texts)
    \/ \E tbl \in MainTables, values \in FaultValues : Insert(tbl, values)
    \/ \E tbl \in MainTables : Select(tbl)
    \/ \E tbl \in MainTables, set \in FaultSets, where \in FaultWheres : Update(tbl, set, where)
    \/ \E tbl \in MainTables, where \in FaultWheres : Delete(tbl, where)
    \/ \E tbl \in MainTables : DropTable(tbl)
    \/ \E tbl \in MainTables, column \in MainIndexColumns : CreateIndex(tbl, column)
    \/ \E tbl \in MainTables : DamageData(tbl)
    \/ \E tbl \in MainTables : DamageSchema(tbl)
    \/ \E tbl \in MainTables : GetAllRows(tbl)
    \/ \E tbl \in MainTables, row \in FaultRows : InsertRow(tbl, row)

SpecFault == Init /\ [][NextFault]_vars

\* the six statement types of the executor
Statements == {"CREATE_TABLE", "INSERT", "SELECT", "UPDATE", "DELETE", "DROP_TABLE"}

\* C12: for every statement and every storage state (missing table, missing
\* schema, unreadable schema or row file) QueryExecutor.execute returns a
\* record and does not raise, and the success flag of the record is false
\* exactly when the record carries an error message.
C12_ExecuteReturnsRecord ==
    stmt.type \in Statements =>
        /\ ~result.raised
        /\ result.success \in BOOLEAN
        /\ result.success <=> result.error = ""

\* an INSERT met an unreadable schema.json and came back as a failure record
C12_Witness ==
    /\ stmt.type = "INSERT"
    /\ Malformed(schemaFile[stmt.table])
    /\ ~result.raised /\ ~result.success /\ result.error = "Error inserting row"

\* C13: when the row-store file exists and is malformed, get_all_rows and
\* insert_row raise and leave the file as it is, and an INSERT statement
\* does not overwrite it.
C13_CorruptStoreRaises ==
    [][\A tbl \in MainTables :
          Malformed(dataFile[tbl]) =>
              /\ (stmt'.type \in {"get_all_rows", "insert_row"} /\ stmt'.table = tbl)
                     => result'.raised /\ dataFile' = dataFile
              /\ InsertStep(tbl) => dataFile' = dataFile]_vars

(***************************************************************************)
(* The definition specification: CREATE TABLE with two different column    *)
(* lists, INSERT, UPDATE, DELETE, DROP TABLE, SELECT and create_index on   *)
(* the table t.                                                            *)
(***************************************************************************)
\* CREATE TABLE t (id INT UNIQUE, name VARCHAR(50) NOT NULL),
\* CREATE TABLE t (id INT PRIMARY KEY, name VARCHAR(50)) and
\* CREATE TABLE t (a INT)
DdlColumnTexts ==
    {<<[name |-> "id", type |-> "INT", len |-> "None", words |-> <<"UNIQUE">>],
       [name |-> "name", type |-> "VARCHAR", len |-> "50", words |-> <<"NOT", "NULL">>]>>,
     <<[name |-> "id", type |-> "INT", len |-> "None", words |-> <<"PRIMARY", "KEY">>],
       [name |-> "name", type |-> "VARCHAR", len |-> "50", words |-> <<>>]>>,
     <<[name |-> "a", type |-> "INT", len |-> "None", words |-> <<>>]>>}

\* VALUES (1, 'John'), (1, 'Jane'), (NULL, 'John'), (2, NULL) and (1)
DdlValues ==
    {<<IntV("1"), StrV("John")>>, <<IntV("1"), StrV("Jane")>>, <<Null, StrV("John")>>,
     <<IntV("2"), Null>>, <<IntV("1")>>}

\* WHERE id = 1, and no WHERE
DdlWheres == {NoWhere, [col |-> "id", op |-> "=", val |-> "1"]}

\* SET name = 'Jane'
DdlSets == {[c \in {"name"} |-> StrV("Jane")]}

NextDdl ==
    \/ \E tbl \in MainTables, texts \in DdlColumnTexts : CreateTable(tbl, texts)
    \/ \E tbl \in MainTables, values \in DdlValues : Insert(tbl, values)
    \/ \E tbl \in MainTables : Select(tbl)
    \/ \E tbl \in MainTables, set \in DdlSets, where \in DdlWheres : Update(tbl, set, where)
    \/ \E tbl \in MainTables, where \in DdlWheres : Delete(tbl, where)
    \/ \E tbl \in MainTables : DropTable(tbl)
    \/ \E tbl \in MainTables, column \in MainIndexColumns : CreateIndex(tbl, column)

SpecDdl == Init /\ [][NextDdl]_vars

\* C23: after any sequence of CREATE TABLE, INSERT, UPDATE, DELETE and DROP
\* TABLE, every key of every persisted row of a table is the name of a column
\* of the schema persisted for that table.
C23_RowKeysInSchema ==
    \A tbl \in MainTables :
        \A i \in DOMAIN get_all_rows(Disk, tbl) :
            DOMAIN get_all_rows(Disk, tbl)[i] \subseteq
                {SchemaColumns(Disk, tbl)[k].name : k \in DOMAIN SchemaColumns(Disk, tbl)}

\* the step runs a DROP TABLE tbl
DropStep(tbl) == stmt'.type = "DROP_TABLE" /\ stmt'.table = tbl

\* nothing of tbl is on the disk d: no directory, schema file, row store or
\* index file, and no entry in the registry
Absent(d, tbl) ==
    /\ ~d.dir[tbl]
    /\ ~d.schema[tbl].exists
    /\ ~d.data[tbl].exists
    /\ \A c \in Columns : ~d.index[tbl][c].exists
    /\ tbl \notin SeqToSet(load_metadata(d))

\* the columns of tbl that have an index file on the disk d
Indexed(d, tbl) == {c \in Columns : d.index[tbl][c].exists}

\* C24: after a successful DROP TABLE t nothing of t is left on disk, SELECT
\* and INSERT on t fail, and a later CREATE TABLE t gives a table with zero
\* rows and no index but the one CREATE TABLE builds for its primary key; a
\* DROP TABLE of a table that does not exist fails and changes nothing.
C24_DropRemovesTable ==
    [][\A tbl \in MainTables : DropStep(tbl) =>
          /\ result'.success = table_exists(Disk, tbl)
          /\ ~result'.success => Disk' = Disk
          /\ result'.success =>
                /\ Absent(Disk', tbl)
                /\ ~execute(Disk', Query("SELECT", tbl)).res.success
                /\ \A values \in DdlValues :
                       ~execute(Disk', [Query("INSERT", tbl) EXCEPT !.values = values]).res.success
                /\ \A texts \in DdlColumnTexts :
                       LET q == parse_create_table(tbl, texts)
                           created == execute(Disk', [Query("CREATE_TABLE", tbl) EXCEPT
                                                         !.columns = q.columns]).disk
                       IN /\ get_all_rows(created, tbl) = <<>>
                          /\ Indexed(created, tbl) =
                                 {q.columns[i].name : i \in {j \in DOMAIN q.columns :
                                      "PRIMARY_KEY" \in q.columns[j].constraints}}]_vars

\* a DROP TABLE has succeeded and the table is gone
C24_Witness ==
    stmt.type = "DROP_TABLE" /\ result.success /\ Absent(Disk, stmt.table)

\* C25: an INSERT into a table without a schema, or with a number of values
\* other than the number of columns, returns failure; and every INSERT that
\* returns failure (missing schema, arity, NOT NULL, UNIQUE) leaves the
\* schema, the row store, the index files and the registry as they were.
C25_FailedInsertChangesNothing ==
    [][\A tbl \in MainTables : InsertStep(tbl) =>
          /\ (\/ SchemaColumns(Disk, tbl) = <<>>
              \/ Len(stmt'.values) /= Len(SchemaColumns(Disk, tbl))) => ~result'.success
          /\ ~result'.success => Disk' = Disk]_vars

\* an INSERT has been refused for a duplicate in a UNIQUE column of a table
\* that holds rows
C25_Witness ==
    /\ stmt.type = "INSERT" /\ ~result.success
    /\ result.error = "Duplicate value for unique column"
    /\ get_all_rows(Disk, stmt.table) /= <<>>

\* the step is a call of IndexManager.create_index(tbl, column)
CreateIndexStep(tbl, column) ==
    stmt'.type = "CREATE_INDEX" /\ stmt'.table = tbl /\ stmt'.column = column

\* C26: right after create_index(t, c), get_by_index(t, c, v) returns for
\* every non-null v exactly the stored rows whose c equals v, in store order,
\* and the rows whose c is null are filed under no key; and in every state
\* get_by_index on a column without an index file returns no rows.
C26_IndexLookupExact ==
    [][\A tbl \in MainTables, c \in MainIndexColumns :
          /\ CreateIndexStep(tbl, c) =>
                /\ \A v \in IndexProbes :
                       /\ ~get_by_index(Disk', tbl, c, v).err
                       /\ get_by_index(Disk', tbl, c, v).rows =
                              SelectSeq(get_all_rows(Disk', tbl), LAMBDA r : Get(r, c, Null) = v)
                /\ Null \notin DOMAIN Disk'.index[tbl][c].map
                /\ get_by_index(Disk', tbl, c, Null) = [err |-> FALSE, rows |-> <<>>]
          /\ ~Disk'.index[tbl][c].exists =>
                \A v \in IndexProbes \cup {Null} :
                    get_by_index(Disk', tbl, c, v) = [err |-> FALSE, rows |-> <<>>]]_vars

\* an index has just been built over rows that hold a value and rows that
\* hold none in the indexed column
C26_Witness ==
    /\ stmt.type = "CREATE_INDEX"
    /\ \E i, j \in DOMAIN get_all_rows(Disk, stmt.table) :
           /\ IsNone(Get(get_all_rows(Disk, stmt.table)[i], stmt.column, Null))
           /\ get_by_index(Disk, stmt.table, stmt.column,
                           Get(get_all_rows(Disk, stmt.table)[j], stmt.column, Null)).rows /= <<>>

\* C27: an UPDATE leaves the persisted schema of its table and of every other
\* table as it was, so every INSERT that would succeed before the UPDATE on
\* the schema's account also finds the schema after it.
C27_UpdateKeepsSchema ==
    [][\A tbl \in MainTables : UpdateStep(tbl) =>
          /\ \A other \in Tables : Disk'.schema[other] = Disk.schema[other]
          /\ \A values \in DdlValues :
                 LET ins == [Query("INSERT", tbl) EXCEPT !.values = values]
                 IN execute(Disk, ins).res.success =>
                        execute(Disk', ins).res.error /= "not found or has no schema"]_vars

\* C29: for the same stored rows and the same WHERE clause a DELETE reports
\* the count an UPDATE reports, and without a WHERE clause both report the
\* number of stored rows.
C29_DeleteCountsLikeUpdate ==
    [][\A tbl \in MainTables : (DeleteStep(tbl) /\ result'.success) =>
          LET upd == [stmt' EXCEPT !.type = "UPDATE", !.set = [c \in {"name"} |-> StrV("Jane")]]
          IN /\ result'.count = execute(Disk, upd).res.count
             /\ stmt'.where = NoWhere => result'.count = Len(get_all_rows(Disk, tbl))]_vars

(***************************************************************************)
(* The table specification: the in-memory Table t(id INT PRIMARY KEY,      *)
(* name VARCHAR(50)) under insert, select, update, delete and create_index.*)
(***************************************************************************)
\* the table as a record
TheTable == [rows |-> table_rows, indexes |-> table_indexes]

SetTable(T) ==
    /\ table_rows' = T.rows
    /\ table_indexes' = T.indexes

\* {'id': i, 'name': n}, and one row whose id is a string
TableRowInputs ==
    {[c \in {"id", "name"} |-> IF c = "id" THEN i ELSE n] :
        i \in {IntV("1"), IntV("2")}, n \in NameValues}
    \cup {[c \in {"id", "name"} |-> IF c = "id" THEN StrV("1") ELSE StrV("John")]}

\* None, "id = 1", "name = 'John'", "name = 'Jane'" and "id > 1"
TableWheres ==
    {NoWhere, [col |-> "id", op |-> "=", val |-> "1"], [col |-> "id", op |-> ">", val |-> "1"]}
    \cup {[col |-> "name", op |-> "=", val |-> n.s] : n \in NameValues}

\* {'name': 'Jane'} and {'id': 2}
TableSets == {[c \in {"name"} |-> StrV("Jane")], [c \in {"id"} |-> IntV("2")]}

TableIndexColumns == {"id", "name"}

\* the result record of a call on the table
TableResult(raised, count, rows) ==
    IF raised /= "" THEN Raise(raised) ELSE Ok(count, rows)

TableInsert(row) ==
    /\ Len(table_rows) < MaxRows
    /\ stmt' = [Query("Table.insert", "t") EXCEPT !.values = <<row>>]
    /\ SetTable(table_insert(TheTable, TableSchema, row).table)
    /\ result' = TableResult(table_insert(TheTable, TableSchema, row).raised, 1, <<>>)
    /\ UNCHANGED <<tableDir, schemaFile, dataFile, indexFile, meta, wr, pc, loaded, prow>>

TableSelect(where) ==
    /\ stmt' = [Query("Table.select", "t") EXCEPT !.where = where]
    /\ result' = TableResult(table_select(TheTable, where).raised,
                             Len(table_select(TheTable, where).rows),
                             table_select(TheTable, where).rows)
    /\ UNCHANGED <<tableDir, schemaFile, dataFile, indexFile, meta, wr, pc, loaded, prow,
                   table_rows, table_indexes>>

TableUpdate(set, where) ==
    /\ stmt' = [Query("Table.update", "t") EXCEPT !.set = set, !.where = where]
    /\ SetTable(table_update(TheTable, set, where).table)
    /\ result' = TableResult("", table_update(TheTable, set, where).count, <<>>)
    /\ UNCHANGED <<tableDir, schemaFile, dataFile, indexFile, meta, wr, pc, loaded, prow>>

TableDelete(where) ==
    /\ stmt' = [Query("Table.delete", "t") EXCEPT !.where = where]
    /\ SetTable(table_delete(TheTable, TableSchema, where).table)
    /\ result' = TableResult("", table_delete(TheTable, TableSchema, where).count, <<>>)
    /\ UNCHANGED <<tableDir, schemaFile, dataFile, indexFile, meta, wr, pc, loaded, prow>>

TableCreateIndex(column) ==
    /\ stmt' = [Query("Table.create_index", "t") EXCEPT !.column = column]
    /\ SetTable(table_create_index(TheTable, column))
    /\ result' = Ok(0, <<>>)
    /\ UNCHANGED <<tableDir, schemaFile, dataFile, indexFile, meta, wr, pc, loaded, prow>>

NextTable ==
    \/ \E row \in TableRowInputs : TableInsert(row)
    \/ \E where \in TableWheres : TableSelect(where)
    \/ \E set \in TableSets, where \in TableWheres : TableUpdate(set, where)
    \/ \E where \in TableWheres : TableDelete(where)
    \/ \E column \in TableIndexColumns : TableCreateIndex(column)

SpecTable == Init /\ [][NextTable]_vars

\* C30: Table.select('c = v') on a column c that has an index (the index of
\* the primary key or one built by Table.create_index) returns the rows a
\* scan of the table without an index returns, after any sequence of
\* Table.insert, Table.update and Table.delete.
C30_IndexedSelectIsScan ==
    (/\ stmt.type = "Table.select"
     /\ stmt.where /= NoWhere /\ stmt.where.op = "="
     /\ stmt.where.col \in DOMAIN table_indexes) =>
        /\ result.success
        /\ result.rows = ScanRows(table_rows, stmt.where.col, stmt.where.val)

====
